---- MODULE Spec2Model ----
(***************************************************************************)
(* cloudconnect: CIDR algebra (Includes, Subnet, VerifyNoOverlap), the     *)
(* validator of the allocation table (Config.Validate) and the planner     *)
(* (Plan / getChangeAction).                                               *)
(*                                                                         *)
(* Addresses are AddrBits wide instead of 32: an address is a number in    *)
(* 0 .. 2^AddrBits - 1 and arithmetic on it wraps modulo 2^AddrBits, as    *)
(* the byte arithmetic of net.IP does modulo 2^32.                         *)
(***************************************************************************)
EXTENDS Integers, Sequences, FiniteSets, TLC

\* ------------------------------------------------------------------ bounds
AddrBits == 2
MaxReserved == 2
MaxSubnets == 3
MaxEdits == 2
MaxRoutes == 2
MaxClock == 4
MaxAttachments == 2
MaxPages == 3
MaxPrefixes == 3

\* -------------------------------------------------------------- addresses
AddrSpace == 2 ^ AddrBits
Addrs == 0 .. (AddrSpace - 1)

\* Number of addresses of a block of prefix length len (net.CIDRMask host part).
HostSize(len) == 2 ^ (AddrBits - len)

\* net.IP.Mask: clear the host bits of ip.
Mask(ip, len) == (ip \div HostSize(len)) * HostSize(len)

\* A CIDR value: net.IPNet{IP, Mask}; net.ParseCIDR and cidr.NextSubnet only
\* produce masked network addresses.
MkCIDR(ip, len) == [ip |-> Mask(ip, len), len |-> len]
Blocks == {MkCIDR(ip, len) : ip \in Addrs, len \in 0 .. AddrBits}

\* An IPv6 block: only its family matters to the planner, which skips its routes.
IsV6(c) == "v6" \in DOMAIN c

\* CIDR.String: "<ip>/<len>", the address printed with dots (IPv4) or colons (IPv6);
\* rendered as the separator and the two printed numbers.
String(c) == <<(IF IsV6(c) THEN ":" ELSE "."), c.ip, c.len>>

\* strings.Contains(s, ":") on a printed block.
HasColon(str) == str[1] = ":"

\* net.IPNet.Contains: ip masked with the block's mask equals the block's address.
Contains(c, ip) == Mask(ip, c.len) = c.ip

\* cidr.AddressRange: the network address, and the network address OR NOT mask.
First(c) == c.ip
Last(c) == Mask(c.ip, c.len) + HostSize(c.len) - 1

\* cidr.Inc: add one to the address bytes, the carry out of the top byte is lost.
Inc(ip) == (ip + 1) % AddrSpace

\* Mutant: only the first address of the subnet is looked up.
IncludesFirstOnly(c, subnet) == Contains(c, First(subnet))

\* CIDR.Includes
Includes(c, subnet) == Contains(c, First(subnet)) /\ Contains(c, Last(subnet))

\* cidr.NextSubnet(network, prefixLen): the block of length prefixLen that follows
\* the one holding network's last address. The rollover flag is dropped by the caller.
NextSubnet(network, prefixLen) ==
  LET currentLast == Last(network)
      currentSubnet == [ip |-> Mask(currentLast, prefixLen), len |-> prefixLen]
      last == Inc(Last(currentSubnet))
  IN [ip |-> Mask(last, prefixLen), len |-> prefixLen]

\* ------------------------------------------------------------------ errors
Nil == [msg |-> "nil"]
Err(m) == [msg |-> m]
ErrOverlap(a, b) == [msg |-> "overlaps with", a |-> a, b |-> b]

\* --------------------------------------------------------- VerifyNoOverlap
\* Mutant: the inner loop starts at j = i + 1.
ConflictAtForward(subnets, i, j) ==
  /\ i < j
  /\ \/ Contains(subnets[j], First(subnets[i]))
     \/ Contains(subnets[j], Last(subnets[i]))

\* The test of the inner loop for the ordered pair (i, j).
ConflictAt(subnets, i, j) ==
  /\ i # j
  /\ \/ Contains(subnets[j], First(subnets[i]))
     \/ Contains(subnets[j], Last(subnets[i]))

\* Position of the pair (i, j) in the order the two loops visit the pairs.
PairRank(subnets, i, j) == (i - 1) * Len(subnets) + j

ConflictPairs(subnets) ==
  {p \in (1 .. Len(subnets)) \X (1 .. Len(subnets)) : ConflictAt(subnets, p[1], p[2])}

\* Mutant: the message names subnets[j] before s.
VerifyNoOverlapSwapped(subnets) ==
  LET hits == ConflictPairs(subnets)
  IN IF hits = {} THEN Nil
     ELSE LET p == CHOOSE q \in hits :
                     \A o \in hits : PairRank(subnets, q[1], q[2]) <= PairRank(subnets, o[1], o[2])
          IN ErrOverlap(String(subnets[p[2]]), String(subnets[p[1]]))

VerifyNoOverlap(subnets) ==
  LET hits == ConflictPairs(subnets)
  IN IF hits = {} THEN Nil
     ELSE LET p == CHOOSE q \in hits :
                     \A o \in hits : PairRank(subnets, q[1], q[2]) <= PairRank(subnets, o[1], o[2])
          IN ErrOverlap(String(subnets[p[1]]), String(subnets[p[2]]))

\* ------------------------------------------------------------ sequences
RECURSIVE Concat(_)
\* append(append(..., s[1]...), s[2]...): the lists of s joined in order.
Concat(s) == IF s = <<>> THEN <<>> ELSE Head(s) \o Concat(Tail(s))

\* The first error of a list of results, nil if there is none: `if err != nil { return }`.
FirstErr(errs) ==
  IF \A k \in 1 .. Len(errs) : errs[k] = Nil THEN Nil
  ELSE errs[CHOOSE k \in 1 .. Len(errs) :
              errs[k] # Nil /\ \A m \in 1 .. (k - 1) : errs[m] = Nil]

\* ------------------------------------------------------------------ Config
\* Region names: two of the AWS partition's regions and one that is none.
AwsRegions == {"eu-west-1", "eu-north-1"}
AllRegions == AwsRegions \cup {"eu-north-0"}

\* The orders in which a range statement may visit the keys of a map whose keys are
\* among regions: Go fixes no order.
OrdersOf(regions) ==
  {o \in [1 .. Cardinality(regions) -> regions] :
     \A i, j \in DOMAIN o : i # j => o[i] # o[j]}

\* The keys of map m in the order o of one range statement.
KeysInOrder(m, o) == SelectSeq(o, LAMBDA r : r \in DOMAIN m)

EmptyMap == [r \in {} |-> <<>>]
Put(m, r, v) == [x \in (DOMAIN m) \cup {r} |-> IF x = r THEN v ELSE m[x]]

ErrUnknownRegion(region) == [msg |-> "unknown region: %s", region |-> region]
ErrDuplicate(owner) == [msg |-> "account has duplicate entries: %s", owner |-> owner]
ErrUnknownSupernet(n) == [msg |-> "subnet is not in a known supernet: %s", cidr |-> String(n)]
ErrRegionMismatch(supernetRegion, n) ==
  [msg |-> "subnet must be in the same region as the containing supernet (%s): %s",
   region |-> supernetRegion, cidr |-> String(n)]
ErrMissingFor(m, region) == [msg |-> m, region |-> region]
Wrap(m, e) == [msg |-> m, cause |-> e]
WrapAt(m, i, e) == [msg |-> m, i |-> i, cause |-> e]
WrapAlloc(team, j, e) == [msg |-> "team: %s: allocation %d: %s", team |-> team, j |-> j, cause |-> e]

validateRegion(region) == IF region \in AwsRegions THEN Nil ELSE ErrUnknownRegion(region)

GatewayValidate(g) ==
  IF g.ID = "" THEN Err("missing gateway id")
  ELSE IF g.RouteTableID = "" THEN Err("missing route table id")
  ELSE Nil

\* The loop over the regions of a CIDRs map shared by Supernet.validate and
\* Allocation.validate: the region, then its list.
CidrMapValidate(cidrs, missing, o) ==
  LET keys == KeysInOrder(cidrs, o)
  IN FirstErr([k \in 1 .. Len(keys) |->
       IF validateRegion(keys[k]) # Nil THEN validateRegion(keys[k])
       ELSE IF Len(cidrs[keys[k]]) = 0 THEN ErrMissingFor(missing, keys[k])
       ELSE Nil])

SupernetValidate(n, o) ==
  IF DOMAIN n.CIDRs = {} THEN Err("missing CIDR ranges")
  ELSE CidrMapValidate(n.CIDRs, "missing CIDR ranges for region: %s", o)

TeamValidate(t) ==
  IF t.Team = "" THEN Err("missing name")
  ELSE IF Len(t.Accounts) = 0 THEN Err("missing allocations")
  ELSE Nil

AllocationValidate(a, o) ==
  IF a.Name = "" THEN Err("missing name")
  ELSE IF a.Owner = "" THEN Err("missing owner")
  ELSE IF DOMAIN a.CIDRs = {} THEN Err("missing cidrs")
  ELSE CidrMapValidate(a.CIDRs, "missing cidrs for region: %s", o)

\* Config.Allocations
Allocations(cfg) == Concat([i \in 1 .. Len(cfg.Teams) |-> cfg.Teams[i].Accounts])

\* Config.ListSupernetsByRegion / ListSubnetsByRegion: per region, the blocks of the
\* entries that declare the region, in table order.
MergeByRegion(entries) ==
  [r \in UNION {DOMAIN entries[k].CIDRs : k \in 1 .. Len(entries)} |->
     Concat([k \in 1 .. Len(entries) |->
               IF r \in DOMAIN entries[k].CIDRs THEN entries[k].CIDRs[r] ELSE <<>>])]

\* Mutant: subnets[region] = cidrs instead of append: the last account's blocks only.
ListSubnetsByRegionOverwrite(cfg) ==
  LET accounts == Concat([i \in 1 .. Len(cfg.Teams) |-> cfg.Teams[i].Accounts])
  IN [r \in UNION {DOMAIN accounts[k].CIDRs : k \in 1 .. Len(accounts)} |->
        accounts[CHOOSE k \in 1 .. Len(accounts) :
                   /\ r \in DOMAIN accounts[k].CIDRs
                   /\ \A m \in (k + 1) .. Len(accounts) : r \notin DOMAIN accounts[m].CIDRs].CIDRs[r]]

ListSupernetsByRegion(cfg) == MergeByRegion(cfg.Supernets)
ListSubnetsByRegion(cfg) == MergeByRegion(Allocations(cfg))

\* Config.ListSupernets / ListSubnets: the per-region lists joined in map order o.
JoinInOrder(byRegion, o) ==
  LET keys == KeysInOrder(byRegion, o)
  IN Concat([k \in 1 .. Len(keys) |-> byRegion[keys[k]]])

ListSupernets(cfg, o) == JoinInOrder(ListSupernetsByRegion(cfg), o)
ListSubnets(cfg, o) == JoinInOrder(ListSubnetsByRegion(cfg), o)

\* getSupernetRegion: the first region, in map order o, with a block that includes n.
getSupernetRegion(n, supernets, o) ==
  LET keys == KeysInOrder(supernets, o)
      hit(k) == \E m \in 1 .. Len(supernets[keys[k]]) : Includes(supernets[keys[k]][m], n)
  IN IF \E k \in 1 .. Len(keys) : hit(k)
     THEN [ok |-> TRUE,
           region |-> keys[CHOOSE k \in 1 .. Len(keys) : hit(k) /\ \A m \in 1 .. (k - 1) : ~hit(m)]]
     ELSE [ok |-> FALSE, region |-> ""]

\* Lines 49-56 of Validate.
ValidateGateways(cfg, o) ==
  LET keys == KeysInOrder(cfg.Gateways, o)
  IN FirstErr([k \in 1 .. Len(keys) |->
       IF validateRegion(keys[k]) # Nil THEN validateRegion(keys[k])
       ELSE GatewayValidate(cfg.Gateways[keys[k]])])

\* Lines 60-64.
ValidateSupernets(cfg, o) ==
  FirstErr([i \in 1 .. Len(cfg.Supernets) |->
    IF SupernetValidate(cfg.Supernets[i], o) # Nil
    THEN WrapAt("supernet %d: %s", i - 1, SupernetValidate(cfg.Supernets[i], o))
    ELSE Nil])

RECURSIVE ValidateAccountsAnyOwner(_, _, _, _)
\* Mutant: an owner already seen is accepted again.
ValidateAccountsAnyOwner(t, j, seen, o) ==
  IF j > Len(t.Accounts) THEN [err |-> Nil, seen |-> seen]
  ELSE IF AllocationValidate(t.Accounts[j], o) # Nil
  THEN [err |-> WrapAlloc(t.Team, j - 1, AllocationValidate(t.Accounts[j], o)),
        seen |-> seen \cup {t.Accounts[j].Owner}]
  ELSE ValidateAccountsAnyOwner(t, j + 1, seen \cup {t.Accounts[j].Owner}, o)

RECURSIVE ValidateAccounts(_, _, _, _)
\* Lines 75-84: the accounts of team t from position j, with the owners seen so far.
ValidateAccounts(t, j, seen, o) ==
  IF j > Len(t.Accounts) THEN [err |-> Nil, seen |-> seen]
  ELSE LET a == t.Accounts[j]
       IN IF a.Owner \in seen THEN [err |-> ErrDuplicate(a.Owner), seen |-> seen]
          ELSE IF AllocationValidate(a, o) # Nil
          THEN [err |-> WrapAlloc(t.Team, j - 1, AllocationValidate(a, o)),
                seen |-> seen \cup {a.Owner}]
          ELSE ValidateAccounts(t, j + 1, seen \cup {a.Owner}, o)

RECURSIVE ValidateTeamsPerTeamSeen(_, _, _, _)
\* Mutant: the accounts map is made anew for every team.
ValidateTeamsPerTeamSeen(cfg, i, seen, o) ==
  IF i > Len(cfg.Teams) THEN Nil
  ELSE LET t == cfg.Teams[i]
       IN IF TeamValidate(t) # Nil THEN WrapAt("team %d: %s", i - 1, TeamValidate(t))
          ELSE LET r == ValidateAccounts(t, 1, {}, o)
               IN IF r.err # Nil THEN r.err ELSE ValidateTeamsPerTeamSeen(cfg, i + 1, {}, o)

RECURSIVE ValidateTeams(_, _, _, _)
\* Lines 70-85: the teams from position i.
ValidateTeams(cfg, i, seen, o) ==
  IF i > Len(cfg.Teams) THEN Nil
  ELSE LET t == cfg.Teams[i]
       IN IF TeamValidate(t) # Nil THEN WrapAt("team %d: %s", i - 1, TeamValidate(t))
          ELSE LET r == ValidateAccounts(t, 1, seen, o)
               IN IF r.err # Nil THEN r.err ELSE ValidateTeams(cfg, i + 1, r.seen, o)

\* Mutant: the region of the containing supernet is not compared.
ValidateSubnetRegionsAnyRegion(cfg, o1, o2) ==
  LET byRegion == ListSubnetsByRegion(cfg)
      keys == KeysInOrder(byRegion, o1)
      check(region, n) ==
        IF ~getSupernetRegion(n, ListSupernetsByRegion(cfg), o2).ok
        THEN ErrUnknownSupernet(n) ELSE Nil
  IN FirstErr(Concat([k \in 1 .. Len(keys) |->
       [m \in 1 .. Len(byRegion[keys[k]]) |-> check(keys[k], byRegion[keys[k]][m])]]))

\* Lines 91-101: every allocated block, region by region in map order o1;
\* getSupernetRegion ranges over the supernet map in order o2.
ValidateSubnetRegions(cfg, o1, o2) ==
  LET byRegion == ListSubnetsByRegion(cfg)
      keys == KeysInOrder(byRegion, o1)
      check(region, n) ==
        LET g == getSupernetRegion(n, ListSupernetsByRegion(cfg), o2)
        IN IF ~g.ok THEN ErrUnknownSupernet(n)
           ELSE IF region # g.region THEN ErrRegionMismatch(g.region, n)
           ELSE Nil
  IN FirstErr(Concat([k \in 1 .. Len(keys) |->
       [m \in 1 .. Len(byRegion[keys[k]]) |-> check(keys[k], byRegion[keys[k]][m])]]))

\* Mutant: the allocated blocks are checked for overlap before their supernets.
ValidateOverlapFirst(cfg, o1, o2) ==
  LET gateways == ValidateGateways(cfg, o1)
      supernets == ValidateSupernets(cfg, o1)
      teams == ValidateTeams(cfg, 1, {}, o1)
      supernetOverlap == VerifyNoOverlap(ListSupernets(cfg, o1))
      regions == ValidateSubnetRegions(cfg, o1, o2)
      subnetOverlap == VerifyNoOverlap(ListSubnets(cfg, o1))
  IN IF DOMAIN cfg.Gateways = {} THEN Err("no gateways specified")
     ELSE IF gateways # Nil THEN gateways
     ELSE IF Len(cfg.Supernets) = 0 THEN Err("no supernets specified")
     ELSE IF supernets # Nil THEN supernets
     ELSE IF Len(cfg.Teams) = 0 THEN Err("no teams specified")
     ELSE IF teams # Nil THEN teams
     ELSE IF supernetOverlap # Nil THEN Wrap("verify supernets: %s", supernetOverlap)
     ELSE IF subnetOverlap # Nil THEN Wrap("verifying subnets: %s", subnetOverlap)
     ELSE IF regions # Nil THEN regions
     ELSE Nil

\* Config.Validate, with o1 the order of the map ranges of its own loops and o2 the
\* order of the range inside getSupernetRegion.
Validate(cfg, o1, o2) ==
  LET gateways == ValidateGateways(cfg, o1)
      supernets == ValidateSupernets(cfg, o1)
      teams == ValidateTeams(cfg, 1, {}, o1)
      supernetOverlap == VerifyNoOverlap(ListSupernets(cfg, o1))
      regions == ValidateSubnetRegions(cfg, o1, o2)
      subnetOverlap == VerifyNoOverlap(ListSubnets(cfg, o1))
  IN IF DOMAIN cfg.Gateways = {} THEN Err("no gateways specified")
     ELSE IF gateways # Nil THEN gateways
     ELSE IF Len(cfg.Supernets) = 0 THEN Err("no supernets specified")
     ELSE IF supernets # Nil THEN supernets
     ELSE IF Len(cfg.Teams) = 0 THEN Err("no teams specified")
     ELSE IF teams # Nil THEN teams
     ELSE IF supernetOverlap # Nil THEN Wrap("verify supernets: %s", supernetOverlap)
     ELSE IF regions # Nil THEN regions
     ELSE IF subnetOverlap # Nil THEN Wrap("verifying subnets: %s", subnetOverlap)
     ELSE Nil

\* The region keys written anywhere in the table.
RegionsIn(cfg) ==
  (DOMAIN cfg.Gateways)
    \cup UNION {DOMAIN cfg.Supernets[i].CIDRs : i \in 1 .. Len(cfg.Supernets)}
    \cup UNION {DOMAIN Allocations(cfg)[k].CIDRs : k \in 1 .. Len(Allocations(cfg))}

\* ----------------------------------------------------------------- Plan
\* The 3 of time.Now().AddDate(0, 0, -3); times are counted in days.
ThreeDays == 3

NoAllocation == [Name |-> "<nil>", Owner |-> "<nil>", CIDRs |-> EmptyMap, nil |-> TRUE]
IsNil(allocation) == "nil" \in DOMAIN allocation

\* getAllocationByOwner: the first allocation of the list with the owner.
getAllocationByOwner(ownerID, allocs) ==
  IF \E k \in 1 .. Len(allocs) : allocs[k].Owner = ownerID
  THEN allocs[CHOOSE k \in 1 .. Len(allocs) :
                 allocs[k].Owner = ownerID /\ \A m \in 1 .. (k - 1) : allocs[m].Owner # ownerID]
  ELSE NoAllocation

\* getRegionForRoute: the first region of the allocation, in map order o, with a block
\* that prints like the route or includes it.
getRegionForRoute(route, allocation, o) ==
  LET keys == KeysInOrder(allocation.CIDRs, o)
      hit(k) == \E m \in 1 .. Len(allocation.CIDRs[keys[k]]) :
                   \/ String(allocation.CIDRs[keys[k]][m]) = String(route)
                   \/ Includes(allocation.CIDRs[keys[k]][m], route)
  IN IF \E k \in 1 .. Len(keys) : hit(k)
     THEN [found |-> TRUE,
           region |-> keys[CHOOSE k \in 1 .. Len(keys) : hit(k) /\ \A m \in 1 .. (k - 1) : ~hit(m)]]
     ELSE [found |-> FALSE, region |-> ""]

\* What getChangeAction did: the action and cause it returned (or the error, or the
\* panic of a nil dereference), how often it called ListAttachmentRoutes and
\* whether it got to the tag check of line 170.
Outcome(kind, action, cause, calls, tagCheck) ==
  [kind |-> kind, action |-> action, cause |-> cause, calls |-> calls, tagCheck |-> tagCheck]

\* Mutant: a missing Name tag is read as the empty name.
TagCheckZeroValue(att, allocation, calls) ==
  IF IsNil(allocation)
  THEN IF "Name" \in DOMAIN att.Tags
       THEN Outcome("panic", "", <<"nil pointer dereference">>, calls, TRUE)
       ELSE Outcome("return", "NONE", <<"">>, calls, TRUE)
  ELSE IF (IF "Name" \in DOMAIN att.Tags THEN att.Tags["Name"] ELSE "") # allocation.Name
  THEN Outcome("return", "TAG", <<"name tag does not match allocation">>, calls, TRUE)
  ELSE Outcome("return", "NONE", <<"">>, calls, TRUE)

\* Lines 170-176: the tag check; allocation.Name of a nil allocation panics.
TagCheck(att, allocation, calls) ==
  IF "Name" \in DOMAIN att.Tags
  THEN IF IsNil(allocation) THEN Outcome("panic", "", <<"nil pointer dereference">>, calls, TRUE)
       ELSE IF att.Tags["Name"] # allocation.Name
       THEN Outcome("return", "TAG", <<"name tag does not match allocation">>, calls, TRUE)
       ELSE Outcome("return", "NONE", <<"">>, calls, TRUE)
  ELSE Outcome("return", "NONE", <<"">>, calls, TRUE)

\* Mutant: static routes are examined like propagated ones.
RouteVerdictStaticToo(r, allocation, currentRegion, o) ==
  IF HasColon(String(r.CIDR)) THEN <<>>
  ELSE LET g == getRegionForRoute(r.CIDR, allocation, o)
       IN IF ~g.found
          THEN <<"missing allocation for propagated route: %s", String(r.CIDR)>>
          ELSE IF g.region # currentRegion
          THEN <<"route propagation from wrong region (subnet belongs to %s): %s",
                 g.region, String(r.CIDR)>>
          ELSE <<>>

\* Lines 154-168: the verdict of one route, "" when the loop goes on.
RouteVerdict(r, allocation, currentRegion, o) ==
  IF r.Type = "static" \/ HasColon(String(r.CIDR)) THEN <<>>
  ELSE LET g == getRegionForRoute(r.CIDR, allocation, o)
       IN IF ~g.found
          THEN <<"missing allocation for propagated route: %s", String(r.CIDR)>>
          ELSE IF g.region # currentRegion
          THEN <<"route propagation from wrong region (subnet belongs to %s): %s",
                 g.region, String(r.CIDR)>>
          ELSE <<>>

\* Mutant: an attachment created exactly three days ago counts as older.
PendingTooOldInclusive(att, clock) == att.Created <= clock - ThreeDays

\* Line 143: a.Created.Before(time.Now().AddDate(0, 0, -3)).
PendingTooOld(att, clock) == att.Created < clock - ThreeDays

\* Mutant: the routes of an allocated pending attachment are listed before it is approved.
PendingActionListsRoutes(att, allocation, clock) ==
  IF ~IsNil(allocation)
  THEN Outcome("return", "APPROVE", <<"account is allocated">>, 1, FALSE)
  ELSE IF PendingTooOld(att, clock)
  THEN Outcome("return", "REJECT", <<"pending without allocation for >3 days">>, 0, FALSE)
  ELSE TagCheck(att, allocation, 0)

\* Mutant: the age of a pending attachment is tested before its allocation.
PendingActionAgeFirst(att, allocation, clock) ==
  IF PendingTooOld(att, clock)
  THEN Outcome("return", "REJECT", <<"pending without allocation for >3 days">>, 0, FALSE)
  ELSE IF ~IsNil(allocation)
  THEN Outcome("return", "APPROVE", <<"account is allocated">>, 0, FALSE)
  ELSE TagCheck(att, allocation, 0)

\* Lines 137-145: case "pendingAcceptance"; without a return the switch is left for
\* the tag check.
PendingAction(att, allocation, clock) ==
  IF ~IsNil(allocation)
  THEN Outcome("return", "APPROVE", <<"account is allocated">>, 0, FALSE)
  ELSE IF PendingTooOld(att, clock)
  THEN Outcome("return", "REJECT", <<"pending without allocation for >3 days">>, 0, FALSE)
  ELSE TagCheck(att, allocation, 0)

\* Lines 154-168 over the whole list: the verdict of the first route that has one.
RoutesVerdict(routes, allocation, currentRegion, o) ==
  LET bad == {k \in 1 .. Len(routes) :
                RouteVerdict(routes[k], allocation, currentRegion, o) # <<>>}
  IN IF bad = {} THEN <<>>
     ELSE RouteVerdict(routes[CHOOSE k \in bad : \A m \in bad : k <= m],
                       allocation, currentRegion, o)

\* Mutant: the routes are listed before the allocation is looked at.
AvailableActionListsFirst(att, allocation, currentRegion, listed, o) ==
  IF ~listed.ok
  THEN Outcome("error", "", <<"list attachment route: %s: %s", att.ID>>, 1, FALSE)
  ELSE IF IsNil(allocation)
  THEN Outcome("return", "DELETE", <<"missing allocation for account">>, 1, FALSE)
  ELSE IF RoutesVerdict(listed.routes, allocation, currentRegion, o) # <<>>
  THEN Outcome("return", "DELETE",
               RoutesVerdict(listed.routes, allocation, currentRegion, o), 1, FALSE)
  ELSE TagCheck(att, allocation, 1)

\* Lines 146-168: case "available"; listed is what m.ListAttachmentRoutes answers.
AvailableAction(att, allocation, currentRegion, listed, o) ==
  IF IsNil(allocation)
  THEN Outcome("return", "DELETE", <<"missing allocation for account">>, 0, FALSE)
  ELSE IF ~listed.ok
  THEN Outcome("error", "", <<"list attachment route: %s: %s", att.ID>>, 1, FALSE)
  ELSE IF RoutesVerdict(listed.routes, allocation, currentRegion, o) # <<>>
  THEN Outcome("return", "DELETE",
               RoutesVerdict(listed.routes, allocation, currentRegion, o), 1, FALSE)
  ELSE TagCheck(att, allocation, 1)

\* Lines 136-176 of getChangeAction, for a vpc attachment; listed is what
\* m.ListAttachmentRoutes answers (the routes, or an error), clock the value of
\* time.Now(), o the order of the range over the allocation's regions.
VpcChangeAction(att, allocation, currentRegion, listed, clock, o) ==
  IF att.State = "pendingAcceptance" THEN PendingAction(att, allocation, clock)
  ELSE IF att.State = "available"
  THEN AvailableAction(att, allocation, currentRegion, listed, o)
  ELSE TagCheck(att, allocation, 0)

\* Mutant: the type of the attachment is only looked at for pending attachments.
getChangeActionLateTypeCheck(att, allocation, currentRegion, listed, clock, o) ==
  IF att.Type # "vpc" /\ att.State = "pendingAcceptance"
  THEN Outcome("return", "NONE", <<"not a vpc attachment">>, 0, FALSE)
  ELSE VpcChangeAction(att, allocation, currentRegion, listed, clock, o)

\* getChangeAction: lines 133-135, then the switch on the state.
getChangeAction(att, allocation, currentRegion, listed, clock, o) ==
  IF att.Type # "vpc" THEN Outcome("return", "NONE", <<"not a vpc attachment">>, 0, FALSE)
  ELSE VpcChangeAction(att, allocation, currentRegion, listed, clock, o)

\* ---------------------------------------------------------------- manager
\* What the EC2 API answers to a request: success, the error with the code
\* DryRunOperation, an error with another code, or an error that is no awserr.Error.
ApiAnswers == {"ok", "DryRunOperation", "UnauthorizedOperation", "connection reset"}

ApiErr(answer) ==
  IF answer = "ok" THEN Nil
  ELSE [msg |-> answer, awserr |-> answer \in {"DryRunOperation", "UnauthorizedOperation"}]

\* Mutant: every awserr.Error counts as the dry-run answer.
isDryRunErrorAnyCode(e) == e.awserr

\* isDryRunError: an awserr.Error whose code is DryRunOperation.
isDryRunError(e) == e.awserr /\ e.msg = "DryRunOperation"

\* if err != nil && !isDryRunError(err) { return err }; return nil
MutationResult(e) == IF e # Nil /\ ~isDryRunError(e) THEN e ELSE Nil

\* What a call of a Manager method did: the requests the EC2 API received and the
\* error returned.
Called(request, answer) == [requests |-> <<request>>, err |-> MutationResult(ApiErr(answer))]

RejectPendingAttachment(att, dryRun, answer) ==
  Called([op |-> "RejectTransitGatewayVpcAttachment", id |-> att.ID, DryRun |-> dryRun], answer)

ApprovePendingAttachment(att, dryRun, answer) ==
  Called([op |-> "AcceptTransitGatewayVpcAttachment", id |-> att.ID, DryRun |-> dryRun], answer)

DeleteAttachment(att, dryRun, answer) ==
  Called([op |-> "DeleteTransitGatewayVpcAttachment", id |-> att.ID, DryRun |-> dryRun], answer)

\* An element of []*ec2.Tag that was never assigned.
NilTag == [nil |-> TRUE]

\* SetAttachmentTags: ec2Tags is made with len(tags) elements and the tags are
\* appended to it, in the order o of the range over the map.
SetAttachmentTags(att, tags, dryRun, answer, o) ==
  LET keys == KeysInOrder(tags, o)
      ec2Tags == [k \in 1 .. Cardinality(DOMAIN tags) |-> NilTag]
                   \o [k \in 1 .. Len(keys) |-> [Key |-> keys[k], Value |-> tags[keys[k]]]]
  IN Called([op |-> "CreateTags", id |-> att.ID, DryRun |-> dryRun, Tags |-> ec2Tags], answer)

\* ------------------------------------------------------------------ Apply
ErrInvalidAction(action) == [msg |-> "invalid action: %s", action |-> action]

\* What Apply did: it returned err, or panicked, after the EC2 API got the requests.
Applied(kind, requests, e) == [kind |-> kind, requests |-> requests, err |-> e]
Returned(call) == Applied("return", call.requests, call.err)

\* Mutant: the cases of REJECT and DELETE are exchanged.
ApplyExchanged(change, dryRun, answer) ==
  IF change.Action = "APPROVE"
  THEN Returned(ApprovePendingAttachment(change.Attachment, dryRun, answer))
  ELSE IF change.Action = "REJECT"
  THEN Returned(DeleteAttachment(change.Attachment, dryRun, answer))
  ELSE IF change.Action = "DELETE"
  THEN Returned(RejectPendingAttachment(change.Attachment, dryRun, answer))
  ELSE IF change.Action = "TAG"
  THEN IF IsNil(change.Allocation)
       THEN Applied("panic", <<>>, Err("nil pointer dereference"))
       ELSE Returned(SetAttachmentTags(change.Attachment,
                                       Put(EmptyMap, "Name", change.Allocation.Name),
                                       dryRun, answer, <<"Name">>))
  ELSE IF change.Action = "NONE" THEN Applied("return", <<>>, Nil)
  ELSE Applied("return", <<>>, ErrInvalidAction(change.Action))

\* Apply: the switch on change.Action; answer is what the EC2 API answers to the
\* request, if one is made.
Apply(change, dryRun, answer) ==
  IF change.Action = "APPROVE"
  THEN Returned(ApprovePendingAttachment(change.Attachment, dryRun, answer))
  ELSE IF change.Action = "REJECT"
  THEN Returned(RejectPendingAttachment(change.Attachment, dryRun, answer))
  ELSE IF change.Action = "DELETE"
  THEN Returned(DeleteAttachment(change.Attachment, dryRun, answer))
  ELSE IF change.Action = "TAG"
  THEN IF IsNil(change.Allocation)
       THEN Applied("panic", <<>>, Err("nil pointer dereference"))
       ELSE Returned(SetAttachmentTags(change.Attachment,
                                       Put(EmptyMap, "Name", change.Allocation.Name),
                                       dryRun, answer, <<"Name">>))
  ELSE IF change.Action = "NONE" THEN Applied("return", <<>>, Nil)
  ELSE Applied("return", <<>>, ErrInvalidAction(change.Action))

\* ---------------------------------------------------------------- state
\* One call of CIDR.Subnet: the receiver, the arguments, the candidate, the position
\* in the function and what it returned.
VARIABLES c, prefix, reserved, next, pc, ret, err

\* One call of VerifyNoOverlap: the argument and the result.
VARIABLES subnets, verr

\* The allocation table (Config) as loaded, the result of the last Validate on it,
\* and how many entries of the document were written since the base document.
VARIABLES config, vres, edits

\* One call of Plan: the attachment, the allocations, the target region, what the
\* Manager answers to ListAttachmentRoutes and the clock; then what Plan did: the
\* change returned (or error, or panic), the allocation it matched, the number of
\* ListAttachmentRoutes calls, and whether the tag check was reached.
VARIABLES attachment, allocations, currentRegion, mgrRoutes, now, planned

\* One call of Apply: the change, the manager's dry-run flag and what the EC2 API
\* answers; then the requests the EC2 API received and what Apply did.
VARIABLES change, dryRun, apiAnswer, requests, applied

\* One run of an entry point (the unattended handler, CLI plan, CLI apply): the table
\* it read, the attachments the gateway holds, the position in the run and in the
\* list, the planned changes, the calls made on the Manager so far with their
\* results, the count of failed applies and how the run ended.
VARIABLES entry, table, live, runPc, pos, changes, trace, applyErrs, outcome

subnetVars == <<c, prefix, reserved, next, pc, ret, err>>
overlapVars == <<subnets, verr>>
validateVars == <<config, vres, edits>>
planVars == <<attachment, allocations, currentRegion, mgrRoutes, now, planned>>
applyVars == <<change, dryRun, apiAnswer, requests, applied>>
runVars == <<entry, table, live, runPc, pos, changes, trace, applyErrs, outcome>>

\* Two blocks and the answers of Includes in both directions.
VARIABLES blockA, blockB, inclAB, inclBA
\* A supernet, a prefix, two reserved lists and the results of Subnet on each.
VARIABLES sSuper, sPrefix, known, other, out, outOther
\* next-cidr: its arguments, the chosen supernet, the reserved list, the position in
\* prefixes, what was written to w, and where the command stands.
VARIABLES super, prefixes, supernet, cidrSubnets, idx, printed, nextPc, nextErr
\* manager.ListAttachments: the pages the API holds, the token of the next request, the
\* tokens sent so far, the attachments gathered and the returned pair.
VARIABLES pages, nextToken, tokens, attachments, listPc, listRet
includesVars == <<blockA, blockB, inclAB, inclBA>>
stableVars == <<sSuper, sPrefix, known, other, out, outOther>>
nextCidrVars == <<super, prefixes, supernet, cidrSubnets, idx, printed, nextPc, nextErr>>
listVars == <<pages, nextToken, tokens, attachments, listPc, listRet>>
toolVars == <<includesVars, stableVars, nextCidrVars, listVars>>

vars == <<subnetVars, overlapVars, validateVars, planVars, applyVars, runVars, toolVars>>

NoCIDR == [ip |-> -1, len |-> -1]
NotRun == [msg |-> "not run"]

SeqsUpTo(S, n) == UNION {[1 .. k -> S] : k \in 0 .. n}

EmptyConfig == [Gateways |-> EmptyMap, Supernets |-> <<>>, Teams |-> <<>>]

SubnetIdle ==
  /\ c = NoCIDR /\ prefix = 0 /\ reserved = <<>> /\ next = NoCIDR
  /\ pc = "idle" /\ ret = NoCIDR /\ err = NotRun

OverlapIdle == subnets = <<>> /\ verr = NotRun

ValidateIdle == config = EmptyConfig /\ vres = NotRun /\ edits = 0

NoAttachment == [ID |-> "", Owner |-> "", Type |-> "", State |-> "", Created |-> 0, Tags |-> EmptyMap]
NotPlanned == [kind |-> "not run"]

\* The answers of Manager.ListAttachmentRoutes.
Listed(routes) == [ok |-> TRUE, routes |-> routes]
ListFailed == [ok |-> FALSE, routes |-> <<>>]

PlanIdle ==
  /\ attachment = NoAttachment /\ allocations = <<>> /\ currentRegion = ""
  /\ mgrRoutes = Listed(<<>>) /\ now = 0 /\ planned = NotPlanned

NoChange == [Action |-> "", Attachment |-> NoAttachment, Allocation |-> NoAllocation]

ApplyIdle ==
  /\ change = NoChange /\ dryRun = FALSE /\ apiAnswer = "ok"
  /\ requests = <<>> /\ applied = NotRun

RunIdle ==
  /\ entry = "" /\ table = EmptyConfig /\ live = <<>> /\ runPc = "idle" /\ pos = 0
  /\ changes = <<>> /\ trace = <<>> /\ applyErrs = 0 /\ outcome = NotRun

IncludesIdle == blockA = NoCIDR /\ blockB = NoCIDR /\ inclAB = NotRun /\ inclBA = NotRun

StableIdle ==
  /\ sSuper = NoCIDR /\ sPrefix = 0 /\ known = <<>> /\ other = <<>>
  /\ out = NotRun /\ outOther = NotRun

NextCidrIdle ==
  /\ super = <<>> /\ prefixes = <<>> /\ supernet = NoCIDR /\ cidrSubnets = <<>>
  /\ idx = 0 /\ printed = <<>> /\ nextPc = "idle" /\ nextErr = NotRun

ListIdle ==
  /\ pages = <<>> /\ nextToken = 0 /\ tokens = <<>> /\ attachments = <<>>
  /\ listPc = "idle" /\ listRet = NotRun

ToolIdle == IncludesIdle /\ StableIdle /\ NextCidrIdle /\ ListIdle

\* ------------------------------------------------------------- CIDR.Subnet
\* Lines 48-57: newBits, the prefix check and the first candidate cidr.Subnet(c, newBits, 0).
SubnetBegin ==
  /\ pc = "begin"
  /\ LET newBits == prefix - c.len
     IN IF newBits < 0
        THEN /\ err' = Err("desired prefix exceeds the supernet")
             /\ pc' = "done" /\ UNCHANGED next
        ELSE IF c.len + newBits > AddrBits
        THEN /\ err' = Err("new subnet: insufficient address space to extend prefix")
             /\ pc' = "done" /\ UNCHANGED next
        ELSE /\ next' = [ip |-> c.ip, len |-> prefix]
             /\ pc' = "loop" /\ UNCHANGED err
  /\ UNCHANGED <<c, prefix, reserved, ret, overlapVars, validateVars, planVars, applyVars, runVars, toolVars>>

\* The reserved blocks the candidate conflicts with, by position.
ReservedHits(cand, rs) ==
  {k \in 1 .. Len(rs) : VerifyNoOverlap(<<cand, rs[k]>>) # Nil}

FirstHit(cand, rs) ==
  CHOOSE k \in ReservedHits(cand, rs) : \A m \in ReservedHits(cand, rs) : k <= m

\* Lines 60-63: one pass over reserved that meets a conflicting block r: the candidate
\* becomes the block after r.
SubnetJump ==
  /\ pc = "loop"
  /\ ReservedHits(next, reserved) # {}
  /\ next' = NextSubnet(reserved[FirstHit(next, reserved)], prefix)
  /\ pc' = "continue"
  /\ UNCHANGED <<c, prefix, reserved, ret, err, overlapVars, validateVars, planVars, applyVars, runVars, toolVars>>

\* Line 64: continue Loop, the scan of reserved restarts with the new candidate.
SubnetContinue ==
  /\ pc = "continue"
  /\ pc' = "loop"
  /\ UNCHANGED <<c, prefix, reserved, next, ret, err, overlapVars, validateVars, planVars, applyVars, runVars, toolVars>>

\* Lines 67-75: a pass without conflict leaves the loop; the candidate is returned if
\* the supernet includes it.
SubnetReturn ==
  /\ pc = "loop"
  /\ ReservedHits(next, reserved) = {}
  /\ IF Includes(c, next)
     THEN ret' = next /\ err' = Nil
     ELSE ret' = NoCIDR /\ err' = Err("no space left in supernet")
  /\ pc' = "done"
  /\ UNCHANGED <<c, prefix, reserved, next, overlapVars, validateVars, planVars, applyVars, runVars, toolVars>>

InitSubnet ==
  /\ c \in Blocks
  /\ prefix \in 0 .. (AddrBits + 1)
  /\ reserved \in SeqsUpTo(Blocks, MaxReserved)
  /\ next = NoCIDR /\ pc = "begin" /\ ret = NoCIDR /\ err = NotRun
  /\ OverlapIdle /\ ValidateIdle /\ PlanIdle /\ ApplyIdle /\ RunIdle /\ ToolIdle

SubnetNext == SubnetBegin \/ SubnetJump \/ SubnetContinue \/ SubnetReturn

SpecSubnet == InitSubnet /\ [][SubnetNext]_vars

\* The call runs on one goroutine that is never suspended: a step that can be taken is taken.
FairSpecSubnet == InitSubnet /\ [][SubnetNext]_vars /\ WF_vars(SubnetNext)

\* -------------------------------------------------- CIDR.Subnet as a function
\* What a call of Subnet comes to: the pair it returns, or no return at all.
Returns(cidr, e) == [kind |-> "return", cidr |-> cidr, err |-> e]
NeverReturns == [kind |-> "hang", cidr |-> NoCIDR, err |-> NotRun]

RECURSIVE SinglePassFrom(_, _, _, _, _)
SinglePassFrom(sup, bits, rs, cand, k) ==
  IF k > Len(rs)
  THEN IF Includes(sup, cand) THEN Returns(cand, Nil)
       ELSE Returns(NoCIDR, Err("no space left in supernet"))
  ELSE IF VerifyNoOverlap(<<cand, rs[k]>>) # Nil
  THEN SinglePassFrom(sup, bits, rs, NextSubnet(rs[k], bits), k + 1)
  ELSE SinglePassFrom(sup, bits, rs, cand, k + 1)

\* Mutant: continue without the label: the scan of reserved goes on after a jump
\* instead of starting again, and one pass ends the loop.
SubnetLoopSinglePass(sup, bits, rs, cand, seen) == SinglePassFrom(sup, bits, rs, cand, 1)

RECURSIVE SubnetLoop(_, _, _, _, _)
\* Lines 59-75 from candidate cand: the loop is a function of the candidate alone, so
\* a candidate that comes back (seen) means the loop never ends.
SubnetLoop(sup, bits, rs, cand, seen) ==
  IF ReservedHits(cand, rs) = {}
  THEN IF Includes(sup, cand) THEN Returns(cand, Nil)
       ELSE Returns(NoCIDR, Err("no space left in supernet"))
  ELSE IF cand \in seen THEN NeverReturns
  ELSE SubnetLoop(sup, bits, rs, NextSubnet(rs[FirstHit(cand, rs)], bits), seen \cup {cand})

\* CIDR.Subnet(prefix, reserved) on supernet sup.
Subnet(sup, bits, rs) ==
  IF bits - sup.len < 0 THEN Returns(NoCIDR, Err("desired prefix exceeds the supernet"))
  ELSE IF bits > AddrBits
  THEN Returns(NoCIDR, Err("new subnet: insufficient address space to extend prefix"))
  ELSE SubnetLoop(sup, bits, rs, [ip |-> sup.ip, len |-> bits], {})

\* ---------------------------------------------- Subnet on two reserved lists
\* The blocks found in reserved lists: the two halves of the address space, and a
\* quarter inside each.
ReservedBlocks == {MkCIDR(0, 1), MkCIDR(HostSize(1), 1), MkCIDR(HostSize(2), 2), MkCIDR(3 * HostSize(2), 2)}

\* The orderings of a list, and the list with one more reservation at its end.
Rearranged(l) == {[k \in 1 .. Len(l) |-> l[f[k]]] : f \in OrdersOf(1 .. Len(l))}
Extended(l) == {Append(l, e) : e \in ReservedBlocks}

SubnetKnown ==
  /\ out = NotRun
  /\ out' = Subnet(sSuper, sPrefix, known)
  /\ UNCHANGED <<sSuper, sPrefix, known, other, outOther, includesVars, nextCidrVars, listVars,
                 subnetVars, overlapVars, validateVars, planVars, applyVars, runVars>>

SubnetOther ==
  /\ out # NotRun /\ outOther = NotRun
  /\ outOther' = Subnet(sSuper, sPrefix, other)
  /\ UNCHANGED <<sSuper, sPrefix, known, other, out, includesVars, nextCidrVars, listVars,
                 subnetVars, overlapVars, validateVars, planVars, applyVars, runVars>>

InitStable ==
  /\ sSuper \in Blocks
  /\ sPrefix \in 0 .. (AddrBits + 1)
  /\ known \in SeqsUpTo(ReservedBlocks, MaxReserved)
  /\ other \in Rearranged(known) \cup Extended(known)
  /\ out = NotRun /\ outOther = NotRun
  /\ IncludesIdle /\ NextCidrIdle /\ ListIdle
  /\ SubnetIdle /\ OverlapIdle /\ ValidateIdle /\ PlanIdle /\ ApplyIdle /\ RunIdle

StableNext == SubnetKnown \/ SubnetOther

SpecStable == InitStable /\ [][StableNext]_vars

\* ------------------------------------------------------ VerifyNoOverlap run
VerifyCall ==
  /\ verr = NotRun
  /\ verr' = VerifyNoOverlap(subnets)
  /\ UNCHANGED <<subnets, subnetVars, validateVars, planVars, applyVars, runVars, toolVars>>

InitOverlap ==
  /\ subnets \in SeqsUpTo(Blocks, MaxSubnets)
  /\ verr = NotRun
  /\ SubnetIdle /\ ValidateIdle /\ PlanIdle /\ ApplyIdle /\ RunIdle /\ ToolIdle

SpecOverlap == InitOverlap /\ [][VerifyCall]_vars

\* ----------------------------------------------------- the table document
GatewayValues ==
  {[ID |-> "tgw-0123", RouteTableID |-> "tgw-rtb-0123"],
   [ID |-> "", RouteTableID |-> "tgw-rtb-0123"],
   [ID |-> "tgw-0123", RouteTableID |-> ""]}

Owners == {"111122223333", "333344445555"}

\* Blocks written in tables: supernets are halves of the address space or its first
\* quarter, allocations its first half or one of its first three quarters.
Half(k) == MkCIDR(k * HostSize(1), 1)
Quarter(k) == MkCIDR(k * HostSize(2), 2)
SupernetBlocks == {Half(0), Half(1), Quarter(0)}
TableBlocks == {Half(0), Quarter(0), Quarter(1), Quarter(2)}

\* The valid document of TestValidate ("works with a valid configuration").
BaseConfig ==
  [Gateways |-> Put(EmptyMap, "eu-west-1", [ID |-> "tgw-0123", RouteTableID |-> "tgw-rtb-0123"]),
   Supernets |-> <<[CIDRs |-> Put(EmptyMap, "eu-west-1", <<Half(0)>>)]>>,
   Teams |-> <<[Team |-> "Public cloud",
                Accounts |-> <<[Name |-> "telia-direct-connect-dev",
                                Owner |-> "111122223333",
                                CIDRs |-> Put(EmptyMap, "eu-west-1", <<Quarter(0)>>)]>>]>>]

AppendTo(m, r, b) == Put(m, r, (IF r \in DOMAIN m THEN m[r] ELSE <<>>) \o <<b>>)
Without(m, r) == [x \in (DOMAIN m) \ {r} |-> m[x]]
Front(s) == SubSeq(s, 1, Len(s) - 1)

\* The document is written before the run loads it: no entry changes once Validate ran.
Edited(cfg) ==
  /\ vres = NotRun
  /\ edits < MaxEdits
  /\ config' = cfg
  /\ edits' = edits + 1
  /\ vres' = NotRun
  /\ UNCHANGED <<subnetVars, overlapVars, planVars, applyVars, runVars, toolVars>>

\* gateways: a region entry is written or removed.
EditGateway ==
  \/ \E r \in AllRegions, g \in GatewayValues :
        Edited([config EXCEPT !.Gateways = Put(@, r, g)])
  \/ \E r \in DOMAIN config.Gateways :
        Edited([config EXCEPT !.Gateways = Without(@, r)])

\* supernets: an entry is added (empty or with one block), gets a block or an empty
\* region, or the last entry is removed.
EditSupernet ==
  \/ Edited([config EXCEPT !.Supernets = Append(@, [CIDRs |-> EmptyMap])])
  \/ \E r \in AllRegions, b \in SupernetBlocks :
        Edited([config EXCEPT !.Supernets = Append(@, [CIDRs |-> Put(EmptyMap, r, <<b>>)])])
  \/ \E i \in 1 .. Len(config.Supernets), r \in AllRegions, b \in SupernetBlocks :
        Edited([config EXCEPT !.Supernets[i].CIDRs = AppendTo(@, r, b)])
  \/ \E i \in 1 .. Len(config.Supernets), r \in AllRegions :
        Edited([config EXCEPT !.Supernets[i].CIDRs = Put(@, r, <<>>)])
  \/ /\ Len(config.Supernets) > 0
     /\ Edited([config EXCEPT !.Supernets = Front(@)])

\* teams: a team is added without accounts, loses its name, or the last one is removed.
EditTeam ==
  \/ \E name \in {"", "Network"} :
        Edited([config EXCEPT !.Teams = Append(@, [Team |-> name, Accounts |-> <<>>])])
  \/ \E t \in 1 .. Len(config.Teams) :
        Edited([config EXCEPT !.Teams[t].Team = ""])
  \/ /\ Len(config.Teams) > 0
     /\ Edited([config EXCEPT !.Teams = Front(@)])

\* accounts: an account with one block is added to a team, an account gets a block,
\* or loses its name, owner, blocks or the blocks of a region.
EditAccount ==
  \/ \E t \in 1 .. Len(config.Teams), o \in Owners, r \in AwsRegions, b \in TableBlocks :
        Edited([config EXCEPT !.Teams[t].Accounts =
                  Append(@, [Name |-> "telia-direct-connect-dev", Owner |-> o,
                             CIDRs |-> Put(EmptyMap, r, <<b>>)])])
  \/ \E t \in 1 .. Len(config.Teams) : \E a \in 1 .. Len(config.Teams[t].Accounts) :
        \/ \E r \in AllRegions, b \in TableBlocks :
              Edited([config EXCEPT !.Teams[t].Accounts[a].CIDRs = AppendTo(@, r, b)])
        \/ \E r \in AllRegions :
              Edited([config EXCEPT !.Teams[t].Accounts[a].CIDRs = Put(@, r, <<>>)])
        \/ Edited([config EXCEPT !.Teams[t].Accounts[a].Name = ""])
        \/ Edited([config EXCEPT !.Teams[t].Accounts[a].Owner = ""])
        \/ Edited([config EXCEPT !.Teams[t].Accounts[a].CIDRs = EmptyMap])

\* Mutant: Validate keeps the merged supernet lists in the table's first supernet.
ValidateCallStoresMerged ==
  /\ \E o1 \in OrdersOf(RegionsIn(config)), o2 \in OrdersOf(DOMAIN ListSupernetsByRegion(config)) :
        vres' = Validate(config, o1, o2)
  /\ config' = IF Len(config.Supernets) = 0 THEN config
               ELSE [config EXCEPT !.Supernets[1].CIDRs = ListSupernetsByRegion(config)]
  /\ UNCHANGED <<edits, subnetVars, overlapVars, planVars, applyVars, runVars, toolVars>>

\* One call of Config.Validate on the loaded table.
ValidateCall ==
  /\ \E o1 \in OrdersOf(RegionsIn(config)), o2 \in OrdersOf(DOMAIN ListSupernetsByRegion(config)) :
        vres' = Validate(config, o1, o2)
  /\ UNCHANGED <<config, edits, subnetVars, overlapVars, planVars, applyVars, runVars, toolVars>>

InitValidate ==
  /\ config = BaseConfig /\ vres = NotRun /\ edits = 0
  /\ SubnetIdle /\ OverlapIdle /\ PlanIdle /\ ApplyIdle /\ RunIdle /\ ToolIdle

ValidateNext == EditGateway \/ EditSupernet \/ EditTeam \/ EditAccount \/ ValidateCall

SpecValidate == InitValidate /\ [][ValidateNext]_vars

\* ------------------------------------------------------------ the planner
\* The allocations handed to Plan: two accounts, the second with blocks in two
\* regions, and an entry that repeats the first owner.
DevAllocation ==
  [Name |-> "telia-direct-connect-dev", Owner |-> "111122223333",
   CIDRs |-> Put(EmptyMap, "eu-west-1", <<Quarter(0)>>)]
NetAllocation ==
  [Name |-> "telia-network", Owner |-> "333344445555",
   CIDRs |-> Put(Put(EmptyMap, "eu-west-1", <<Quarter(1)>>), "eu-north-1", <<Half(1)>>)]
DevAgain ==
  [Name |-> "telia-direct-connect-test", Owner |-> "111122223333",
   CIDRs |-> Put(EmptyMap, "eu-north-1", <<Half(1)>>)]
AllocationLists ==
  {<<>>, <<DevAllocation>>, <<NetAllocation>>, <<DevAllocation, NetAllocation>>,
   <<NetAllocation, DevAllocation>>, <<DevAllocation, DevAgain>>}

V6Block == [ip |-> 0, len |-> 0, v6 |-> TRUE]
RouteChoices ==
  {[CIDR |-> Quarter(0), Type |-> "propagated"],
   [CIDR |-> Quarter(2), Type |-> "propagated"],
   [CIDR |-> Quarter(2), Type |-> "static"],
   [CIDR |-> V6Block, Type |-> "propagated"]}

Attachments ==
  [ID : {"tgw-attach-1"},
   Owner : {"111122223333", "333344445555", "unallocated"},
   Type : {"vpc", "direct-connect"},
   State : {"pendingAcceptance", "available", "rejected", "deleted"},
   Created : 0 .. MaxClock,
   Tags : {EmptyMap, Put(EmptyMap, "Name", "telia-direct-connect-dev"),
           Put(EmptyMap, "Name", "stale-name")}]

\* Plan: the allocation of the owner, then getChangeAction.
PlanCall ==
  /\ planned = NotPlanned
  /\ LET allocation == getAllocationByOwner(attachment.Owner, allocations)
     IN \E o \in OrdersOf(DOMAIN allocation.CIDRs) :
          planned' = getChangeAction(attachment, allocation, currentRegion, mgrRoutes, now, o)
                        @@ [allocation |-> allocation]
  /\ UNCHANGED <<attachment, allocations, currentRegion, mgrRoutes, now,
                 subnetVars, overlapVars, validateVars, applyVars, runVars, toolVars>>

InitPlan ==
  /\ attachment \in Attachments
  /\ allocations \in AllocationLists
  /\ currentRegion \in AwsRegions
  /\ mgrRoutes \in {Listed(l) : l \in SeqsUpTo(RouteChoices, MaxRoutes)} \cup {ListFailed}
  /\ now \in {MaxClock - 1, MaxClock}
  /\ planned = NotPlanned
  /\ SubnetIdle /\ OverlapIdle /\ ValidateIdle /\ ApplyIdle /\ RunIdle /\ ToolIdle

SpecPlan == InitPlan /\ [][PlanCall]_vars

\* ------------------------------------------------------------ the executor
\* The five actions, and two values that are none of them.
ChangeActions == {"APPROVE", "REJECT", "DELETE", "TAG", "NONE"}
AttachmentIDs == {"tgw-attach-1", "tgw-attach-2"}

Changes ==
  [Action : ChangeActions \cup {"", "RETRY"},
   Attachment : {[NoAttachment EXCEPT !.ID = id] : id \in AttachmentIDs},
   Allocation : {DevAllocation, NetAllocation, NoAllocation}]

\* One call of Apply on a Manager made by NewManager(client, _, _, dryRun).
ApplyCall ==
  /\ applied = NotRun
  /\ applied' = Apply(change, dryRun, apiAnswer)
  /\ requests' = requests \o Apply(change, dryRun, apiAnswer).requests
  /\ UNCHANGED <<change, dryRun, apiAnswer, subnetVars, overlapVars, validateVars,
                 planVars, runVars, toolVars>>

InitApply ==
  /\ change \in Changes
  /\ dryRun \in BOOLEAN
  /\ apiAnswer \in ApiAnswers
  /\ requests = <<>> /\ applied = NotRun
  /\ SubnetIdle /\ OverlapIdle /\ ValidateIdle /\ PlanIdle /\ RunIdle /\ ToolIdle

SpecApply == InitApply /\ [][ApplyCall]_vars

\* --------------------------------------------------------- the entry points
\* Plan, as a function of what the Manager answers to ListAttachmentRoutes.
Plan(a, allocs, region, listed, clock, o) ==
  getChangeAction(a, getAllocationByOwner(a.Owner, allocs), region, listed, clock, o)
    @@ [allocation |-> getAllocationByOwner(a.Owner, allocs)]

\* The AttachmentChange of lines 81-86.
ChangeOf(a, p) == [Action |-> p.action, Reason |-> p.cause, Allocation |-> p.allocation, Attachment |-> a]

\* The --region of the run and the value of time.Now() during it.
RunRegion == "eu-west-1"
RunClock == MaxClock

\* Tables a run may read: the valid document; one whose second account repeats the
\* first owner; one without teams; one whose gateway is declared for another region.
DupOwnerTable ==
  [BaseConfig EXCEPT !.Teams[1].Accounts =
     Append(@, [Name |-> "telia-direct-connect-test", Owner |-> "111122223333",
                CIDRs |-> Put(EmptyMap, "eu-west-1", <<Quarter(1)>>)])]
NoTeamsTable == [BaseConfig EXCEPT !.Teams = <<>>]
OtherRegionTable ==
  [BaseConfig EXCEPT !.Gateways = Put(EmptyMap, "eu-north-1", [ID |-> "tgw-0123", RouteTableID |-> "tgw-rtb-0123"])]
RunTables == {BaseConfig, DupOwnerTable, NoTeamsTable, OtherRegionTable}

\* Attachments the gateway may hold.
LiveAttachments ==
  {[ID |-> "tgw-attach-1", Owner |-> "111122223333", Type |-> "vpc",
    State |-> "pendingAcceptance", Created |-> RunClock, Tags |-> EmptyMap],
   [ID |-> "tgw-attach-2", Owner |-> "unallocated", Type |-> "vpc",
    State |-> "pendingAcceptance", Created |-> 0, Tags |-> EmptyMap],
   [ID |-> "tgw-attach-3", Owner |-> "111122223333", Type |-> "vpc",
    State |-> "available", Created |-> 0, Tags |-> Put(EmptyMap, "Name", "stale-name")],
   [ID |-> "tgw-attach-4", Owner |-> "111122223333", Type |-> "direct-connect",
    State |-> "available", Created |-> 0, Tags |-> EmptyMap],
   [ID |-> "tgw-attach-5", Owner |-> "unallocated", Type |-> "vpc",
    State |-> "rejected", Created |-> 0, Tags |-> Put(EmptyMap, "Name", "stale-name")],
   [ID |-> "tgw-attach-6", Owner |-> "unallocated", Type |-> "vpc",
    State |-> "available", Created |-> 0, Tags |-> EmptyMap],
   [ID |-> "tgw-attach-7", Owner |-> "111122223333", Type |-> "vpc",
    State |-> "deleted", Created |-> 0, Tags |-> EmptyMap]}

\* What the Manager may answer when the routes of an attachment are listed.
RouteAnswers ==
  {Listed(<<>>), Listed(<<[CIDR |-> Quarter(2), Type |-> "propagated"]>>), ListFailed}

\* The answers of the EC2 API to the mutations of a run.
RunAnswers == {"ok", "UnauthorizedOperation"}

\* A call on the Manager and whether it failed; an attempt of Apply likewise.
Event(op, id, failed) == [op |-> op, id |-> id, failed |-> failed]
RequestEvents(reqs, failed) == [k \in 1 .. Len(reqs) |-> Event(reqs[k].op, reqs[k].id, failed)]
RouteEvents(a, p, listed) ==
  IF p.calls = 0 THEN <<>> ELSE <<Event("ListAttachmentRoutes", a.ID, ~listed.ok)>>

\* How a run ends: it returns (msg "" for nil), exits through a Fatal, or panics; at
\* is the position of the run when it ended.
Ended(kind, msg) == [kind |-> kind, msg |-> msg, at |-> runPc]

RunFrame == UNCHANGED <<subnetVars, overlapVars, validateVars, planVars, applyVars, toolVars>>

\* autoapprover.Setup lines 47-56: the table is read, validated, and the gateway of
\* the region looked up. addPlanCommand / addApplyCommand: the table is read and the
\* gateway of the region looked up.
RunLoad ==
  /\ runPc = "start"
  /\ \E o1 \in OrdersOf(RegionsIn(table)), o2 \in OrdersOf(DOMAIN ListSupernetsByRegion(table)) :
       IF entry = "handler" /\ Validate(table, o1, o2) # Nil
       THEN runPc' = "done" /\ outcome' = Ended("fatal", "validate config")
       ELSE IF RunRegion \notin DOMAIN table.Gateways
       THEN runPc' = "done" /\ outcome' = Ended("fatal", "no gateway config for region: %s")
       ELSE runPc' = "list" /\ outcome' = outcome
  /\ UNCHANGED <<entry, table, live, pos, changes, trace, applyErrs>>
  /\ RunFrame

\* m.ListAttachments(), first statement of the handler and of planChanges.
RunList ==
  /\ runPc = "list"
  /\ \E failed \in BOOLEAN :
       /\ trace' = Append(trace, Event("ListAttachments", "", failed))
       /\ IF failed
          THEN /\ runPc' = "done" /\ pos' = pos
               /\ outcome' = Ended("fatal", IF entry = "handler" THEN "failed to list attachments"
                                            ELSE IF entry = "plan" THEN "plan changes: %s"
                                            ELSE "appl changes: %s")
          ELSE /\ runPc' = (IF entry = "handler" THEN "handle" ELSE "plan")
               /\ pos' = 1 /\ outcome' = outcome
  /\ UNCHANGED <<entry, table, live, changes, applyErrs>>
  /\ RunFrame

\* PlanAll, one pass of its loop: Plan of the next attachment; an error ends
\* planChanges, and with it the command.
RunPlanOne ==
  /\ runPc = "plan" /\ pos <= Len(live)
  /\ \E listed \in RouteAnswers :
       \E o \in OrdersOf(DOMAIN getAllocationByOwner(live[pos].Owner, Allocations(table)).CIDRs) :
          LET p == Plan(live[pos], Allocations(table), RunRegion, listed, RunClock, o)
          IN /\ trace' = trace \o RouteEvents(live[pos], p, listed)
             /\ IF p.kind = "return"
                THEN /\ changes' = Append(changes, ChangeOf(live[pos], p))
                     /\ pos' = pos + 1 /\ runPc' = runPc /\ outcome' = outcome
                ELSE /\ changes' = <<>> /\ pos' = pos /\ runPc' = "done"
                     /\ outcome' = IF p.kind = "panic" THEN Ended("panic", "nil pointer dereference")
                                   ELSE IF entry = "plan" THEN Ended("fatal", "plan changes: %s")
                                   ELSE Ended("fatal", "appl changes: %s")
  /\ UNCHANGED <<entry, table, live, applyErrs>>
  /\ RunFrame

\* The end of planChanges: the plan is printed; CLI plan is done, CLI apply goes on
\* to the approval.
RunPlanned ==
  /\ runPc = "plan" /\ pos > Len(live)
  /\ IF entry = "plan"
     THEN runPc' = "done" /\ outcome' = Ended("return", "")
     ELSE runPc' = "confirm" /\ outcome' = outcome
  /\ UNCHANGED <<entry, table, live, pos, changes, trace, applyErrs>>
  /\ RunFrame

\* applyChanges lines 358-372: with --auto-approve or the input "Y" the changes are
\* applied; any other input aborts with nil, an unreadable input with an error.
RunConfirm ==
  /\ runPc = "confirm"
  /\ \E input \in {"Y", "n", "EOF"} :
       IF input = "Y"
       THEN runPc' = "apply" /\ pos' = 1 /\ outcome' = outcome
       ELSE /\ runPc' = "done" /\ pos' = pos
            /\ outcome' = IF input = "n" THEN Ended("return", "")
                          ELSE Ended("fatal", "appl changes: %s")
  /\ UNCHANGED <<entry, table, live, changes, trace, applyErrs>>
  /\ RunFrame

\* Mutant: the loop returns at the first change that fails, as ApplyAll does.
RunApplyOneStopsAtError ==
  /\ runPc = "apply" /\ pos <= Len(changes)
  /\ \E answer \in RunAnswers :
       LET r == Apply(changes[pos], FALSE, answer)
       IN /\ trace' = (trace \o RequestEvents(r.requests, r.err # Nil))
                        \o <<Event("Apply", changes[pos].Attachment.ID, r.err # Nil)>>
          /\ IF r.err # Nil
             THEN /\ runPc' = "done" /\ pos' = pos /\ applyErrs' = applyErrs + 1
                  /\ outcome' = Ended("fatal", "appl changes: %s")
             ELSE /\ runPc' = runPc /\ pos' = pos + 1 /\ applyErrs' = applyErrs
                  /\ outcome' = outcome
  /\ UNCHANGED <<entry, table, live, changes>>
  /\ RunFrame

\* applyChanges lines 375-386, one pass of the loop: Apply of the next change; a
\* failure is counted and the loop goes on.
RunApplyOne ==
  /\ runPc = "apply" /\ pos <= Len(changes)
  /\ \E answer \in RunAnswers :
       LET r == Apply(changes[pos], FALSE, answer)
       IN /\ trace' = (trace \o RequestEvents(r.requests, r.err # Nil))
                        \o <<Event("Apply", changes[pos].Attachment.ID, r.err # Nil)>>
          /\ IF r.kind = "panic"
             THEN /\ runPc' = "done" /\ pos' = pos /\ applyErrs' = applyErrs
                  /\ outcome' = Ended("panic", "nil pointer dereference")
             ELSE /\ runPc' = runPc /\ pos' = pos + 1 /\ outcome' = outcome
                  /\ applyErrs' = IF r.err # Nil THEN applyErrs + 1 ELSE applyErrs
  /\ UNCHANGED <<entry, table, live, changes>>
  /\ RunFrame

\* applyChanges lines 389-392 and addApplyCommand: the aggregate error, if any.
RunApplied ==
  /\ runPc = "apply" /\ pos > Len(changes)
  /\ runPc' = "done"
  /\ outcome' = IF applyErrs > 0 THEN Ended("fatal", "appl changes: one or more changes failed")
                ELSE Ended("return", "")
  /\ UNCHANGED <<entry, table, live, pos, changes, trace, applyErrs>>
  /\ RunFrame

\* newLambdaHandler, one pass of its loop: Plan of the next attachment; an error is
\* logged and the attachment skipped, a no-op is skipped, any other change applied.
RunHandleOne ==
  /\ runPc = "handle" /\ pos <= Len(live)
  /\ \E listed \in RouteAnswers, answer \in RunAnswers :
       \E o \in OrdersOf(DOMAIN getAllocationByOwner(live[pos].Owner, Allocations(table)).CIDRs) :
          LET p == Plan(live[pos], Allocations(table), RunRegion, listed, RunClock, o)
              r == Apply(ChangeOf(live[pos], p), FALSE, answer)
          IN IF p.kind = "panic"
             THEN /\ trace' = trace /\ changes' = changes /\ pos' = pos /\ applyErrs' = applyErrs
                  /\ runPc' = "done" /\ outcome' = Ended("panic", "nil pointer dereference")
             ELSE IF p.kind = "error"
             THEN /\ trace' = trace \o RouteEvents(live[pos], p, listed)
                  /\ changes' = changes /\ pos' = pos + 1 /\ applyErrs' = applyErrs
                  /\ runPc' = runPc /\ outcome' = outcome
             ELSE IF p.action = "NONE"
             THEN /\ trace' = trace \o RouteEvents(live[pos], p, listed)
                  /\ changes' = Append(changes, ChangeOf(live[pos], p))
                  /\ pos' = pos + 1 /\ applyErrs' = applyErrs
                  /\ runPc' = runPc /\ outcome' = outcome
             ELSE /\ trace' = ((trace \o RouteEvents(live[pos], p, listed))
                                 \o RequestEvents(r.requests, r.err # Nil))
                                 \o <<Event("Apply", live[pos].ID, r.err # Nil)>>
                  /\ changes' = Append(changes, ChangeOf(live[pos], p))
                  /\ pos' = pos + 1
                  /\ applyErrs' = IF r.err # Nil THEN applyErrs + 1 ELSE applyErrs
                  /\ runPc' = runPc /\ outcome' = outcome
  /\ UNCHANGED <<entry, table, live>>
  /\ RunFrame

\* The handler returns nil after the last attachment.
RunHandled ==
  /\ runPc = "handle" /\ pos > Len(live)
  /\ runPc' = "done" /\ outcome' = Ended("return", "")
  /\ UNCHANGED <<entry, table, live, pos, changes, trace, applyErrs>>
  /\ RunFrame

InitRun ==
  /\ entry \in {"handler", "plan", "apply"}
  /\ table \in RunTables
  /\ live \in SeqsUpTo(LiveAttachments, MaxAttachments)
  /\ runPc = "start" /\ pos = 0 /\ changes = <<>> /\ trace = <<>> /\ applyErrs = 0
  /\ outcome = NotRun
  /\ SubnetIdle /\ OverlapIdle /\ ValidateIdle /\ PlanIdle /\ ApplyIdle /\ ToolIdle

RunNext ==
  \/ RunLoad \/ RunList \/ RunPlanOne \/ RunPlanned \/ RunConfirm
  \/ RunApplyOne \/ RunApplied \/ RunHandleOne \/ RunHandled

SpecRun == InitRun /\ [][RunNext]_vars

\* ------------------------------------------------------------ CIDR.Includes
\* A.Includes(B) and B.Includes(A), each called once.
IncludesAB ==
  /\ inclAB = NotRun
  /\ inclAB' = [answer |-> Includes(blockA, blockB)]
  /\ UNCHANGED <<blockA, blockB, inclBA, stableVars, nextCidrVars, listVars,
                 subnetVars, overlapVars, validateVars, planVars, applyVars, runVars>>

IncludesBA ==
  /\ inclBA = NotRun
  /\ inclBA' = [answer |-> Includes(blockB, blockA)]
  /\ UNCHANGED <<blockA, blockB, inclAB, stableVars, nextCidrVars, listVars,
                 subnetVars, overlapVars, validateVars, planVars, applyVars, runVars>>

InitIncludes ==
  /\ blockA \in Blocks /\ blockB \in Blocks
  /\ inclAB = NotRun /\ inclBA = NotRun
  /\ StableIdle /\ NextCidrIdle /\ ListIdle
  /\ SubnetIdle /\ OverlapIdle /\ ValidateIdle /\ PlanIdle /\ ApplyIdle /\ RunIdle

IncludesNext == IncludesAB \/ IncludesBA

SpecIncludes == InitIncludes /\ [][IncludesNext]_vars

\* ------------------------------------------------------------- next-cidr
\* Tables next-cidr may read: the valid document; one with a second supernet that has
\* no allocation yet; one with two accounts, the second of which takes the whole
\* second supernet.
NorthFreeTable ==
  [BaseConfig EXCEPT !.Supernets =
     <<[CIDRs |-> Put(Put(EmptyMap, "eu-west-1", <<Half(0)>>), "eu-north-1", <<Half(1)>>)]>>]
TwoRegionTable ==
  [NorthFreeTable EXCEPT !.Teams[1].Accounts = <<DevAllocation, NetAllocation>>]
NextTables == {BaseConfig, NorthFreeTable, TwoRegionTable}

\* The values of --supernet: the two supernets and a block that is none.
SuperChoices == {String(Half(0)), String(Half(1)), String(Quarter(0))}

ErrInvalidSupernet(str) == [msg |-> "invalid supernet: %s", super |-> str]

\* Mutant: the block found is printed but not appended to subnets.
NextCIDROneForgets ==
  /\ nextPc = "loop" /\ idx <= Len(prefixes)
  /\ LET r == Subnet(supernet, prefixes[idx], cidrSubnets)
     IN IF r.kind = "hang"
        THEN /\ nextPc' = "hang"
             /\ UNCHANGED <<cidrSubnets, idx, printed, nextErr>>
        ELSE IF r.err # Nil
        THEN /\ nextErr' = r.err /\ nextPc' = "done"
             /\ UNCHANGED <<cidrSubnets, idx, printed>>
        ELSE /\ cidrSubnets' = cidrSubnets
             /\ \E wrote \in BOOLEAN :
                  IF wrote
                  THEN /\ printed' = Append(printed, String(r.cidr))
                       /\ idx' = idx + 1
                       /\ UNCHANGED <<nextPc, nextErr>>
                  ELSE /\ nextErr' = Err("write failed") /\ nextPc' = "done"
                       /\ UNCHANGED <<idx, printed>>
  /\ UNCHANGED <<super, prefixes, supernet, includesVars, stableVars, listVars,
                 subnetVars, overlapVars, validateVars, planVars, applyVars, runVars>>

\* Lines 102-112: the supernet that prints like --supernet (the last one of the list
\* that does), the error if there is none, and the list of allocated blocks.
NextCIDRBegin ==
  /\ nextPc = "begin"
  /\ \E o1 \in OrdersOf(RegionsIn(config)), o2 \in OrdersOf(RegionsIn(config)) :
       LET list == ListSupernets(config, o1)
           hits == {k \in 1 .. Len(list) : String(list[k]) = super}
       IN IF hits = {}
          THEN /\ nextErr' = ErrInvalidSupernet(super) /\ nextPc' = "done"
               /\ UNCHANGED <<supernet, cidrSubnets, idx>>
          ELSE /\ supernet' = list[CHOOSE k \in hits : \A m \in hits : m <= k]
               /\ cidrSubnets' = ListSubnets(config, o2)
               /\ idx' = 1 /\ nextPc' = "loop"
               /\ UNCHANGED nextErr
  /\ UNCHANGED <<super, prefixes, printed, includesVars, stableVars, listVars,
                 subnetVars, overlapVars, validateVars, planVars, applyVars, runVars>>

\* Lines 113-123, one prefix: Subnet on the list so far (a call that may never
\* return), the error return, the append, and the line written to w.
NextCIDROne ==
  /\ nextPc = "loop" /\ idx <= Len(prefixes)
  /\ LET r == Subnet(supernet, prefixes[idx], cidrSubnets)
     IN IF r.kind = "hang"
        THEN /\ nextPc' = "hang"
             /\ UNCHANGED <<cidrSubnets, idx, printed, nextErr>>
        ELSE IF r.err # Nil
        THEN /\ nextErr' = r.err /\ nextPc' = "done"
             /\ UNCHANGED <<cidrSubnets, idx, printed>>
        ELSE /\ cidrSubnets' = Append(cidrSubnets, r.cidr)
             /\ \E wrote \in BOOLEAN :
                  IF wrote
                  THEN /\ printed' = Append(printed, String(r.cidr))
                       /\ idx' = idx + 1
                       /\ UNCHANGED <<nextPc, nextErr>>
                  ELSE /\ nextErr' = Err("write failed") /\ nextPc' = "done"
                       /\ UNCHANGED <<idx, printed>>
  /\ UNCHANGED <<super, prefixes, supernet, includesVars, stableVars, listVars,
                 subnetVars, overlapVars, validateVars, planVars, applyVars, runVars>>

\* Line 124: return nil after the last prefix.
NextCIDRDone ==
  /\ nextPc = "loop" /\ idx > Len(prefixes)
  /\ nextErr' = Nil /\ nextPc' = "done"
  /\ UNCHANGED <<super, prefixes, supernet, cidrSubnets, idx, printed,
                 includesVars, stableVars, listVars,
                 subnetVars, overlapVars, validateVars, planVars, applyVars, runVars>>

InitNextCidr ==
  /\ config \in NextTables /\ vres = NotRun /\ edits = 0
  /\ super \in SuperChoices
  /\ prefixes \in SeqsUpTo(0 .. (AddrBits + 1), MaxPrefixes)
  /\ supernet = NoCIDR /\ cidrSubnets = <<>> /\ idx = 0 /\ printed = <<>>
  /\ nextPc = "begin" /\ nextErr = NotRun
  /\ IncludesIdle /\ StableIdle /\ ListIdle
  /\ SubnetIdle /\ OverlapIdle /\ PlanIdle /\ ApplyIdle /\ RunIdle

NextCidrNext == NextCIDRBegin \/ NextCIDROne \/ NextCIDRDone

SpecNextCidr == InitNextCidr /\ [][NextCidrNext]_vars

\* ------------------------------------------------- Plan on a validated table
\* Tables loaded before planning: two valid ones and two that Validate refuses (an
\* owner listed twice; an account with the same block in two regions).
RegionClashTable ==
  [TwoRegionTable EXCEPT !.Teams[1].Accounts[2].CIDRs =
     Put(Put(EmptyMap, "eu-west-1", <<Half(1)>>), "eu-north-1", <<Half(1)>>)]
PlanTables == {BaseConfig, TwoRegionTable, DupOwnerTable, RegionClashTable}

\* The attachments planned: vpc attachments, pending or available, new or old.
ValidatedAttachments ==
  {x \in Attachments : /\ x.Type = "vpc"
                       /\ x.State \in {"pendingAcceptance", "available"}
                       /\ x.Created \in {0, MaxClock}}

\* Plan after Setup has accepted the table (autoapprover.Setup line 51), with the
\* allocations of the table in any order.
PlanValidated ==
  /\ vres = Nil /\ planned = NotPlanned
  /\ \E allocs \in Rearranged(Allocations(config)) :
       \E o \in OrdersOf(DOMAIN getAllocationByOwner(attachment.Owner, allocs).CIDRs) :
          /\ allocations' = allocs
          /\ planned' = Plan(attachment, allocs, currentRegion, mgrRoutes, now, o)
  /\ UNCHANGED <<attachment, currentRegion, mgrRoutes, now,
                 subnetVars, overlapVars, validateVars, applyVars, runVars, toolVars>>

InitPlanValidated ==
  /\ config \in PlanTables /\ vres = NotRun /\ edits = 0
  /\ attachment \in ValidatedAttachments
  /\ allocations = <<>>
  /\ currentRegion \in AwsRegions
  /\ mgrRoutes \in {Listed(l) : l \in SeqsUpTo(RouteChoices, MaxRoutes)} \cup {ListFailed}
  /\ now = MaxClock
  /\ planned = NotPlanned
  /\ SubnetIdle /\ OverlapIdle /\ ApplyIdle /\ RunIdle /\ ToolIdle

PlanValidatedNext == ValidateCall \/ PlanValidated

SpecPlanValidated == InitPlanValidated /\ [][PlanValidatedNext]_vars

\* -------------------------------------------------- manager.ListAttachments
\* ec2.TransitGatewayAttachment values the API may hold.
RawAttachments ==
  {[TransitGatewayAttachmentId |-> "tgw-attach-1", ResourceOwnerId |-> "111122223333",
    ResourceType |-> "vpc", State |-> "pendingAcceptance", CreationTime |-> 1, Tags |-> <<>>],
   [TransitGatewayAttachmentId |-> "tgw-attach-2", ResourceOwnerId |-> "333344445555",
    ResourceType |-> "direct-connect", State |-> "available", CreationTime |-> 2,
    Tags |-> <<[Key |-> "Name", Value |-> "telia-network"], [Key |-> "Team", Value |-> "Network"]>>]}

\* What DescribeTransitGatewayAttachments answers for one page: an error, or a list.
Page(items, fails) == [TransitGatewayAttachments |-> items, fails |-> fails]
PageChoices ==
  {Page(<<>>, TRUE), Page(<<>>, FALSE)}
    \cup {Page(<<x>>, FALSE) : x \in RawAttachments}
    \cup {Page(<<x, y>>, FALSE) : x, y \in RawAttachments}

RECURSIVE TagMap(_)
\* Lines 73-76: the tag list as a map, a later tag of a key replacing an earlier one.
TagMap(tags) ==
  IF tags = <<>> THEN EmptyMap
  ELSE Put(TagMap(Front(tags)), tags[Len(tags)].Key, tags[Len(tags)].Value)

\* Lines 77-84: the Attachment made of one ec2 attachment.
Converted(raw) ==
  [ID |-> raw.TransitGatewayAttachmentId, Owner |-> raw.ResourceOwnerId,
   Type |-> raw.ResourceType, State |-> raw.State, Created |-> raw.CreationTime,
   Tags |-> TagMap(raw.Tags)]

\* Mutant: attachments = page instead of append.
AppendPageOverwrite(acc, items) == [j \in 1 .. Len(items) |-> Converted(items[j])]

\* Lines 72-85: the attachments of a page appended to those gathered so far.
AppendPage(acc, items) == acc \o [j \in 1 .. Len(items) |-> Converted(items[j])]

\* The page a token stands for (nil, written 0, is the first page), and the token
\* the API sends with a page: that of the following page, or nil after the last.
PageOf(token) == IF token = 0 THEN 1 ELSE token
TokenAfter(k) == IF k < Len(pages) THEN k + 1 ELSE 0

\* Lines 58-91, one pass of the loop: the request with the current token, the error
\* return, the conversion of the page, and the break on a nil token.
ListRequest ==
  /\ listPc = "loop"
  /\ tokens' = Append(tokens, nextToken)
  /\ LET page == pages[PageOf(nextToken)]
     IN IF page.fails
        THEN /\ listRet' = [attachments |-> <<>>, err |-> ApiErr("UnauthorizedOperation")]
             /\ listPc' = "done"
             /\ UNCHANGED <<attachments, nextToken>>
        ELSE /\ attachments' = AppendPage(attachments, page.TransitGatewayAttachments)
             /\ nextToken' = TokenAfter(PageOf(nextToken))
             /\ listPc' = IF TokenAfter(PageOf(nextToken)) = 0 THEN "return" ELSE "loop"
             /\ UNCHANGED listRet
  /\ UNCHANGED <<pages, includesVars, stableVars, nextCidrVars,
                 subnetVars, overlapVars, validateVars, planVars, applyVars, runVars>>

\* Line 93: return attachments, nil.
ListReturn ==
  /\ listPc = "return"
  /\ listRet' = [attachments |-> attachments, err |-> Nil]
  /\ listPc' = "done"
  /\ UNCHANGED <<pages, nextToken, tokens, attachments, includesVars, stableVars, nextCidrVars,
                 subnetVars, overlapVars, validateVars, planVars, applyVars, runVars>>

InitList ==
  /\ pages \in SeqsUpTo(PageChoices, MaxPages) \ {<<>>}
  /\ nextToken = 0 /\ tokens = <<>> /\ attachments = <<>>
  /\ listPc = "loop" /\ listRet = NotRun
  /\ IncludesIdle /\ StableIdle /\ NextCidrIdle
  /\ SubnetIdle /\ OverlapIdle /\ ValidateIdle /\ PlanIdle /\ ApplyIdle /\ RunIdle

ListNext == ListRequest \/ ListReturn

SpecList == InitList /\ [][ListNext]_vars

\* ---------------------------------------------------------------- ApplyAll
\* The changes handed to ApplyAll.
BatchChanges ==
  {[Action |-> "APPROVE", Allocation |-> DevAllocation,
    Attachment |-> [NoAttachment EXCEPT !.ID = "tgw-attach-1"]],
   [Action |-> "REJECT", Allocation |-> NoAllocation,
    Attachment |-> [NoAttachment EXCEPT !.ID = "tgw-attach-2"]],
   [Action |-> "TAG", Allocation |-> DevAllocation,
    Attachment |-> [NoAttachment EXCEPT !.ID = "tgw-attach-3"]],
   [Action |-> "NONE", Allocation |-> DevAllocation,
    Attachment |-> [NoAttachment EXCEPT !.ID = "tgw-attach-4"]],
   [Action |-> "DELETE", Allocation |-> NoAllocation,
    Attachment |-> [NoAttachment EXCEPT !.ID = "tgw-attach-6"]]}

\* ApplyAll lines 124-128, one pass of the loop: Apply of the next change; an error
\* is returned at once.
ApplyAllOne ==
  /\ runPc = "applyAll" /\ pos <= Len(changes)
  /\ \E answer \in RunAnswers :
       LET r == Apply(changes[pos], FALSE, answer)
       IN /\ trace' = (trace \o RequestEvents(r.requests, r.err # Nil))
                        \o <<Event("Apply", changes[pos].Attachment.ID, r.err # Nil)>>
          /\ IF r.kind = "panic"
             THEN /\ runPc' = "done" /\ pos' = pos /\ applyErrs' = applyErrs
                  /\ outcome' = Ended("panic", "nil pointer dereference")
             ELSE IF r.err # Nil
             THEN /\ runPc' = "done" /\ pos' = pos /\ applyErrs' = applyErrs + 1
                  /\ outcome' = Ended("return", r.err.msg)
             ELSE /\ runPc' = runPc /\ pos' = pos + 1 /\ applyErrs' = applyErrs
                  /\ outcome' = outcome
  /\ UNCHANGED <<entry, table, live, changes>>
  /\ RunFrame

\* ApplyAll line 129: return nil after the last change.
ApplyAllDone ==
  /\ runPc = "applyAll" /\ pos > Len(changes)
  /\ runPc' = "done" /\ outcome' = Ended("return", "")
  /\ UNCHANGED <<entry, table, live, pos, changes, trace, applyErrs>>
  /\ RunFrame

InitApplyAll ==
  /\ entry = "ApplyAll" /\ table = EmptyConfig /\ live = <<>>
  /\ changes \in SeqsUpTo(BatchChanges, MaxAttachments)
  /\ runPc = "applyAll" /\ pos = 1 /\ trace = <<>> /\ applyErrs = 0 /\ outcome = NotRun
  /\ SubnetIdle /\ OverlapIdle /\ ValidateIdle /\ PlanIdle /\ ApplyIdle /\ ToolIdle

ApplyAllNext == ApplyAllOne \/ ApplyAllDone

SpecApplyAll == InitApplyAll /\ [][ApplyAllNext]_vars

\* ---------------------------------------------------------------- C9
\* C9: for an attachment whose type is not "vpc" Plan yields NONE with the reason
\* "not a vpc attachment" and never lists its routes, whatever the state, age, tags,
\* routes and allocation.
C9_NonVpcIsNoOp ==
  (planned # NotPlanned /\ attachment.Type # "vpc") =>
     /\ planned.kind = "return"
     /\ planned.action = "NONE"
     /\ planned.cause = <<"not a vpc attachment">>
     /\ planned.calls = 0

\* A direct-connect attachment, available, allocated, with a stale name tag and an
\* unallocated propagated route on the gateway.
C9_Witness ==
  /\ planned # NotPlanned
  /\ attachment.Type = "direct-connect" /\ attachment.State = "available"
  /\ ~IsNil(planned.allocation)
  /\ "Name" \in DOMAIN attachment.Tags /\ attachment.Tags["Name"] # planned.allocation.Name
  /\ \E k \in 1 .. Len(mgrRoutes.routes) :
        /\ mgrRoutes.routes[k].Type = "propagated"
        /\ ~getRegionForRoute(mgrRoutes.routes[k].CIDR, planned.allocation,
                              <<"eu-west-1", "eu-north-1">>).found

\* ---------------------------------------------------------------- C10
\* C10: a vpc attachment in pendingAcceptance without allocation is rejected, with
\* "pending without allocation for >3 days", exactly when it was created strictly
\* before the current time minus 3 days; otherwise Plan goes on to the tag check.
C10_RejectAfterThreeDays ==
  (/\ planned # NotPlanned
   /\ attachment.Type = "vpc" /\ attachment.State = "pendingAcceptance"
   /\ \A k \in 1 .. Len(allocations) : allocations[k].Owner # attachment.Owner) =>
     IF attachment.Created + 3 < now
     THEN /\ planned.kind = "return" /\ planned.action = "REJECT"
          /\ planned.cause = <<"pending without allocation for >3 days">>
          /\ ~planned.tagCheck
     ELSE planned.action # "REJECT" /\ planned.tagCheck

\* Created exactly 3 days before the current time: not rejected.
C10_Witness ==
  /\ planned # NotPlanned
  /\ attachment.Type = "vpc" /\ attachment.State = "pendingAcceptance"
  /\ \A k \in 1 .. Len(allocations) : allocations[k].Owner # attachment.Owner
  /\ attachment.Created + 3 = now
  /\ planned.action = "NONE" /\ planned.tagCheck

\* ------------------------------------------------------- address-set view
\* The addresses of a block, by its bounds (independent of Mask/Contains).
Range(b) == {a \in Addrs : b.ip <= a /\ a < b.ip + HostSize(b.len)}
SharesAddress(a, b) == Range(a) \cap Range(b) # {}

\* ---------------------------------------------------------------- C1
\* The blocks of length p inside supernet s that overlap no block of rs.
FreeBlocks(s, p, rs) ==
  {b \in Blocks : /\ b.len = p
                  /\ Range(b) \subseteq Range(s)
                  /\ \A k \in 1 .. Len(rs) : ~SharesAddress(b, rs[k])}

LowestFree(s, p, rs) ==
  CHOOSE b \in FreeBlocks(s, p, rs) : \A o \in FreeBlocks(s, p, rs) : b.ip <= o.ip

C1Applies == pc # "idle" /\ c.len <= prefix /\ prefix <= AddrBits

C1Outcome ==
  IF FreeBlocks(c, prefix, reserved) = {}
  THEN ret = NoCIDR /\ err = Err("no space left in supernet")
  ELSE err = Nil /\ ret = LowestFree(c, prefix, reserved)

\* C1: for every supernet, every prefix between the supernet's and the address width
\* and every reserved list, Subnet returns: the lowest free block of that prefix if
\* there is one, and otherwise no block and "no space left in supernet".
C1_SubnetReturnsFirstFit == C1Applies ~> (pc = "done" /\ C1Outcome)

\* What does hold: whenever Subnet returns, it returns the outcome C1 describes.
SubnetPartialCorrectness == (pc = "done" /\ C1Applies) => C1Outcome

\* ---------------------------------------------------------------- C2
\* Two entries at distinct positions share an address.
SomeOverlap(l) ==
  \E i, j \in 1 .. Len(l) : i # j /\ SharesAddress(l[i], l[j])

\* C2: VerifyNoOverlap returns an error if and only if two entries at distinct
\* positions of the list share at least one address; nil exactly when the blocks
\* are pairwise disjoint.
C2_VerifyNoOverlapIffShared ==
  verr # NotRun => ((verr # Nil) <=> SomeOverlap(subnets))

C2_Witness ==
  /\ verr # NotRun /\ verr # Nil /\ Len(subnets) = 3
  /\ \E i, j \in 1 .. 3 : i < j /\ subnets[i] # subnets[j]
        /\ Range(subnets[j]) \subseteq Range(subnets[i])
        /\ First(subnets[j]) # First(subnets[i]) /\ Last(subnets[j]) # Last(subnets[i])

\* ---------------------------------------------------------------- C3
\* The pairs of positions i < j of which one block contains the other.
ContainedPairs(l) ==
  {p \in (1 .. Len(l)) \X (1 .. Len(l)) :
     /\ p[1] < p[2]
     /\ \/ Range(l[p[1]]) \subseteq Range(l[p[2]])
        \/ Range(l[p[2]]) \subseteq Range(l[p[1]])}

OnePair(l) == Cardinality(ContainedPairs(l)) = 1
ThePair(l) == CHOOSE p \in ContainedPairs(l) : TRUE

\* C3 as stated: with one contained pair at positions i < j the message is
\* "<list[i]> overlaps with <list[j]>", whichever block is the larger.
C3_MessageInInputOrder ==
  (verr # NotRun /\ OnePair(subnets)) =>
     LET p == ThePair(subnets)
     IN verr = ErrOverlap(String(subnets[p[1]]), String(subnets[p[2]]))

\* C3 amended: the message names list[i] first when list[j] holds the first or the
\* last address of list[i]; when list[i] holds list[j] strictly inside (sharing
\* neither boundary address) the message is "<list[j]> overlaps with <list[i]>".
C3_MessageOrder ==
  (verr # NotRun /\ OnePair(subnets)) =>
     LET p == ThePair(subnets)
         i == p[1]
         j == p[2]
         edge == \/ First(subnets[i]) \in Range(subnets[j])
                 \/ Last(subnets[i]) \in Range(subnets[j])
     IN IF edge
        THEN verr = ErrOverlap(String(subnets[i]), String(subnets[j]))
        ELSE verr = ErrOverlap(String(subnets[j]), String(subnets[i]))

C3_Witness ==
  /\ verr # NotRun /\ OnePair(subnets)
  /\ LET p == ThePair(subnets)
     IN /\ First(subnets[p[1]]) \notin Range(subnets[p[2]])
        /\ Last(subnets[p[1]]) \notin Range(subnets[p[2]])
        /\ verr = ErrOverlap(String(subnets[p[2]]), String(subnets[p[1]]))

\* ------------------------------------------------- the table's invariants
\* The allocated blocks and the supernet blocks of a table, by position.
AllocEntries(cfg) ==
  {e \in [t : 1 .. Len(cfg.Teams), a : 1 .. 4, r : AllRegions, k : 1 .. 4] :
     /\ e.a <= Len(cfg.Teams[e.t].Accounts)
     /\ e.r \in DOMAIN cfg.Teams[e.t].Accounts[e.a].CIDRs
     /\ e.k <= Len(cfg.Teams[e.t].Accounts[e.a].CIDRs[e.r])}
AllocBlock(cfg, e) == cfg.Teams[e.t].Accounts[e.a].CIDRs[e.r][e.k]

SupernetEntries(cfg) ==
  {e \in [i : 1 .. Len(cfg.Supernets), r : AllRegions, k : 1 .. 4] :
     /\ e.r \in DOMAIN cfg.Supernets[e.i].CIDRs
     /\ e.k <= Len(cfg.Supernets[e.i].CIDRs[e.r])}
SupernetBlock(cfg, e) == cfg.Supernets[e.i].CIDRs[e.r][e.k]

\* The supernet blocks that hold the allocated block at e.
Holders(cfg, e) ==
  {s \in SupernetEntries(cfg) : Range(AllocBlock(cfg, e)) \subseteq Range(SupernetBlock(cfg, s))}

AccountAt(cfg, t, a) == cfg.Teams[t].Accounts[a]
AccountPositions(cfg) ==
  {p \in (1 .. Len(cfg.Teams)) \X (1 .. 4) : p[2] <= Len(cfg.Teams[p[1]].Accounts)}

BadCidrMap(m) ==
  \/ DOMAIN m = {}
  \/ \E r \in DOMAIN m : r \notin AwsRegions \/ m[r] = <<>>

V1(cfg) == DOMAIN cfg.Gateways = {}
V2(cfg) == \E r \in DOMAIN cfg.Gateways :
             r \notin AwsRegions \/ cfg.Gateways[r].ID = "" \/ cfg.Gateways[r].RouteTableID = ""
V3(cfg) == cfg.Supernets = <<>>
V4(cfg) == \E i \in 1 .. Len(cfg.Supernets) : BadCidrMap(cfg.Supernets[i].CIDRs)
V5(cfg) == cfg.Teams = <<>>
V6(cfg) == \E t \in 1 .. Len(cfg.Teams) : cfg.Teams[t].Team = "" \/ cfg.Teams[t].Accounts = <<>>
V7(cfg) == \E p, q \in AccountPositions(cfg) :
             p # q /\ AccountAt(cfg, p[1], p[2]).Owner = AccountAt(cfg, q[1], q[2]).Owner
V8(cfg) == \E p \in AccountPositions(cfg) :
             LET a == AccountAt(cfg, p[1], p[2])
             IN a.Name = "" \/ a.Owner = "" \/ BadCidrMap(a.CIDRs)
V9(cfg) == \E s1, s2 \in SupernetEntries(cfg) :
             s1 # s2 /\ SharesAddress(SupernetBlock(cfg, s1), SupernetBlock(cfg, s2))
V10(cfg) == \E e \in AllocEntries(cfg) : ~\E s \in Holders(cfg, e) : s.r = e.r
V11(cfg) == \E e1, e2 \in AllocEntries(cfg) :
              e1 # e2 /\ SharesAddress(AllocBlock(cfg, e1), AllocBlock(cfg, e2))

Violated(cfg) ==
  {k \in 1 .. 11 :
     \/ (k = 1 /\ V1(cfg)) \/ (k = 2 /\ V2(cfg)) \/ (k = 3 /\ V3(cfg))
     \/ (k = 4 /\ V4(cfg)) \/ (k = 5 /\ V5(cfg)) \/ (k = 6 /\ V6(cfg))
     \/ (k = 7 /\ V7(cfg)) \/ (k = 8 /\ V8(cfg)) \/ (k = 9 /\ V9(cfg))
     \/ (k = 10 /\ V10(cfg)) \/ (k = 11 /\ V11(cfg))}

Lowest(S) == IF S = {} THEN 0 ELSE CHOOSE k \in S : \A m \in S : k <= m

\* The invariant an error of Validate reports, by its message; 0 for nil.
ErrClass(e) ==
  CASE e.msg = "nil" -> 0
    [] e.msg = "no gateways specified" -> 1
    [] e.msg \in {"unknown region: %s", "missing gateway id", "missing route table id"} -> 2
    [] e.msg = "no supernets specified" -> 3
    [] e.msg = "supernet %d: %s" -> 4
    [] e.msg = "no teams specified" -> 5
    [] e.msg = "team %d: %s" -> 6
    [] e.msg = "account has duplicate entries: %s" -> 7
    [] e.msg = "team: %s: allocation %d: %s" -> 8
    [] e.msg = "verify supernets: %s" -> 9
    [] e.msg \in {"subnet is not in a known supernet: %s",
                  "subnet must be in the same region as the containing supernet (%s): %s"} -> 10
    [] e.msg = "verifying subnets: %s" -> 11
    [] OTHER -> -1

Validated == vres # NotRun

\* ---------------------------------------------------------------- C4
\* C4: when Validate returns no error every allocated block is included in exactly
\* one supernet block, declared under the block's own region; the "not in a known
\* supernet" error names an allocated block that no supernet block holds, the "same
\* region" error one held by a supernet block of the region it names, another than
\* the block's; a table that passes the earlier checks and has such a block is
\* rejected with one of the two.
C4_BlocksInOneSupernetOfRegion ==
  Validated =>
    /\ vres = Nil =>
         \A e \in AllocEntries(config) :
            /\ Cardinality(Holders(config, e)) = 1
            /\ \A s \in Holders(config, e) : s.r = e.r
    /\ vres.msg = "subnet is not in a known supernet: %s" =>
         \E e \in AllocEntries(config) :
            String(AllocBlock(config, e)) = vres.cidr /\ Holders(config, e) = {}
    /\ vres.msg = "subnet must be in the same region as the containing supernet (%s): %s" =>
         \E e \in AllocEntries(config) :
            /\ String(AllocBlock(config, e)) = vres.cidr
            /\ e.r # vres.region
            /\ \E s \in Holders(config, e) : s.r = vres.region
    /\ (V10(config) /\ Violated(config) \cap (1 .. 9) = {}) => ErrClass(vres) = 10

\* An accepted table with supernets and allocations in two regions.
C4_Witness ==
  /\ vres = Nil
  /\ \E e1, e2 \in AllocEntries(config) : e1.r # e2.r
  /\ \E s1, s2 \in SupernetEntries(config) : s1.r # s2.r

\* ---------------------------------------------------------------- C5
\* C5: when Validate returns no error all allocated blocks of the table are pairwise
\* non-overlapping; a table with two overlapping allocated blocks is rejected,
\* whatever accounts and regions declare them, and by "verifying subnets: <a>
\* overlaps with <b>" when it passes every earlier check.
C5_AllocatedBlocksDisjoint ==
  Validated =>
    /\ V11(config) => vres # Nil
    /\ (V11(config) /\ Violated(config) \cap (1 .. 10) = {}) =>
         /\ vres.msg = "verifying subnets: %s"
         /\ \E e1, e2 \in AllocEntries(config) :
              /\ e1 # e2
              /\ vres.cause = ErrOverlap(String(AllocBlock(config, e1)), String(AllocBlock(config, e2)))
              /\ SharesAddress(AllocBlock(config, e1), AllocBlock(config, e2))

\* Two overlapping blocks of different accounts rejected by the last check.
C5_Witness ==
  /\ vres.msg = "verifying subnets: %s"
  /\ \E e1, e2 \in AllocEntries(config) :
       /\ <<e1.t, e1.a>> # <<e2.t, e2.a>>
       /\ SharesAddress(AllocBlock(config, e1), AllocBlock(config, e2))

\* ---------------------------------------------------------------- C6
OwnerCount(cfg, owner) ==
  Cardinality({k \in 1 .. Len(Allocations(cfg)) : Allocations(cfg)[k].Owner = owner})

\* C6: when Validate returns no error no two accounts have the same owner, so at
\* most one allocation matches any owner; the duplicate error names an owner that
\* occurs twice, and a table whose only defect is a repeated owner gets that error.
C6_OwnersUnique ==
  Validated =>
    /\ vres = Nil =>
         /\ ~V7(config)
         /\ \A owner \in Owners \cup {""} : OwnerCount(config, owner) <= 1
    /\ vres.msg = "account has duplicate entries: %s" => OwnerCount(config, vres.owner) >= 2
    /\ (V7(config) /\ Violated(config) \cap ((1 .. 6) \cup {8}) = {}) =>
         \E owner \in Owners : OwnerCount(config, owner) >= 2 /\ vres = ErrDuplicate(owner)

\* The repeated owner sits in two different teams.
C6_Witness ==
  /\ vres.msg = "account has duplicate entries: %s"
  /\ \E p, q \in AccountPositions(config) :
       /\ p[1] # q[1]
       /\ AccountAt(config, p[1], p[2]).Owner = vres.owner
       /\ AccountAt(config, q[1], q[2]).Owner = vres.owner

\* ---------------------------------------------------------------- C7
\* C7 as stated: the error is that of the lowest-numbered violated invariant.
C7_LowestViolatedFirst ==
  Validated => ErrClass(vres) = Lowest(Violated(config))

\* Invariants 6, 7 and 8 are checked together, entry by entry.
Group(k) == IF k \in 6 .. 8 THEN 6 ELSE k

\* The teams (a = 0) and accounts (a > 0) that fail a check of 6-8, an account
\* failing 7 when an account before it in the table has its owner.
EarlierAccount(p, q) == p[1] < q[1] \/ (p[1] = q[1] /\ p[2] < q[2])
DupOfEarlier(cfg, q) ==
  \E p \in AccountPositions(cfg) :
     EarlierAccount(p, q) /\ AccountAt(cfg, p[1], p[2]).Owner = AccountAt(cfg, q[1], q[2]).Owner
BadAccount(cfg, q) ==
  LET a == AccountAt(cfg, q[1], q[2])
  IN a.Name = "" \/ a.Owner = "" \/ BadCidrMap(a.CIDRs)
Offenders(cfg) ==
  {<<t, 0>> : t \in {t \in 1 .. Len(cfg.Teams) :
                       cfg.Teams[t].Team = "" \/ cfg.Teams[t].Accounts = <<>>}}
    \cup {q \in AccountPositions(cfg) : DupOfEarlier(cfg, q) \/ BadAccount(cfg, q)}
FirstOffender(cfg) ==
  CHOOSE q \in Offenders(cfg) : \A p \in Offenders(cfg) : p = q \/ EarlierAccount(q, p)

\* C7 amended: invariants 1-5 are checked in that order, then 6-8 together, team by
\* team and account by account in table order (a team's name and accounts before
\* its accounts; for an account owner uniqueness before name, owner and blocks), then
\* 9, 10 and 11: the error is that of the first violated group, and within 6-8 that
\* of the first offending team or account of the table.
C7_FailFastOrder ==
  Validated =>
    /\ Group(ErrClass(vres)) = Lowest({Group(k) : k \in Violated(config)})
    /\ ErrClass(vres) \in 6 .. 8 =>
         LET q == FirstOffender(config)
         IN IF q[2] = 0 THEN ErrClass(vres) = 6 /\ vres.i = q[1] - 1
            ELSE IF DupOfEarlier(config, q)
            THEN vres = ErrDuplicate(AccountAt(config, q[1], q[2]).Owner)
            ELSE /\ ErrClass(vres) = 8
                 /\ vres.team = config.Teams[q[1]].Team
                 /\ vres.j = q[2] - 1

\* A later team violates 6 and the error returned is the 8 of an earlier account.
C7_Witness ==
  /\ ErrClass(vres) = 8
  /\ V6(config)
  /\ Violated(config) \cap (1 .. 5) = {}

\* ---------------------------------------------------------------- C8
\* C8: a call of Validate leaves the table as it was, and on a table a call
\* accepted every further call returns no error again.
C8_ValidateReadOnlyIdempotent ==
  [][(vres' # NotRun) => (config' = config /\ (vres = Nil => vres' = Nil))]_vars

\* An accepted table that is not the base document.
C8_Witness == vres = Nil /\ edits = MaxEdits /\ Cardinality(RegionsIn(config)) > 1

\* ------------------------------------------------------- planner outcomes
\* The attachment's owner has an allocation in the list handed to Plan.
Allocated == \E k \in 1 .. Len(allocations) : allocations[k].Owner = attachment.Owner

\* The first allocation of the owner, found without getAllocationByOwner.
Matched ==
  allocations[CHOOSE k \in 1 .. Len(allocations) :
                 /\ allocations[k].Owner = attachment.Owner
                 /\ \A m \in 1 .. Len(allocations) :
                       allocations[m].Owner = attachment.Owner => k <= m]

\* ---------------------------------------------------------------- C11
\* C11: a vpc attachment in pendingAcceptance whose owner has an allocation is
\* approved with "account is allocated", whatever its age, tags and the regions of
\* the allocation, and no route is fetched.
C11_PendingAllocatedApproved ==
  (/\ planned # NotPlanned
   /\ attachment.Type = "vpc" /\ attachment.State = "pendingAcceptance"
   /\ Allocated) =>
     /\ planned.kind = "return" /\ planned.action = "APPROVE"
     /\ planned.cause = <<"account is allocated">>
     /\ planned.calls = 0
     /\ planned.allocation = Matched

\* Approved although created more than 3 days ago, with a stale name tag and an
\* allocation that has no block in the target region.
C11_Witness ==
  /\ planned # NotPlanned
  /\ attachment.Type = "vpc" /\ attachment.State = "pendingAcceptance" /\ Allocated
  /\ attachment.Created + 3 < now
  /\ "Name" \in DOMAIN attachment.Tags /\ attachment.Tags["Name"] # Matched.Name
  /\ currentRegion \notin DOMAIN Matched.CIDRs
  /\ planned.action = "APPROVE"

\* ---------------------------------------------------------------- C12
\* C12: a vpc attachment in state available whose owner has no allocation is deleted
\* with "missing allocation for account", whatever its tags and routes, and its
\* routes are never fetched.
C12_AvailableUnallocatedDeleted ==
  (/\ planned # NotPlanned
   /\ attachment.Type = "vpc" /\ attachment.State = "available"
   /\ ~Allocated) =>
     /\ planned.kind = "return" /\ planned.action = "DELETE"
     /\ planned.cause = <<"missing allocation for account">>
     /\ planned.calls = 0

\* Deleted although it carries a Name tag and the gateway would fail to list its routes.
C12_Witness ==
  /\ planned # NotPlanned
  /\ attachment.Type = "vpc" /\ attachment.State = "available" /\ ~Allocated
  /\ "Name" \in DOMAIN attachment.Tags
  /\ ~mgrRoutes.ok
  /\ planned.action = "DELETE" /\ planned.calls = 0

\* ---------------------------------------------------------------- C13
\* The regions under which allocation a declares a block that holds every address of
\* the destination d.
RegionsHolding(a, d) ==
  {r \in DOMAIN a.CIDRs :
     \E m \in 1 .. Len(a.CIDRs[r]) :
        /\ ~IsV6(a.CIDRs[r][m])
        /\ \A x \in Addrs : (d.ip <= x /\ x < d.ip + HostSize(d.len)) =>
              (a.CIDRs[r][m].ip <= x /\ x < a.CIDRs[r][m].ip + HostSize(a.CIDRs[r][m].len))}

\* The routes that are examined: neither static nor with an IPv6 destination.
Examined(k) == mgrRoutes.routes[k].Type # "static" /\ ~IsV6(mgrRoutes.routes[k].CIDR)

RouteUnallocated(k) == Examined(k) /\ RegionsHolding(Matched, mgrRoutes.routes[k].CIDR) = {}
RouteWrongRegion(k) ==
  /\ Examined(k)
  /\ RegionsHolding(Matched, mgrRoutes.routes[k].CIDR) # {}
  /\ currentRegion \notin RegionsHolding(Matched, mgrRoutes.routes[k].CIDR)
RouteOffends(k) == RouteUnallocated(k) \/ RouteWrongRegion(k)

FirstOffending ==
  CHOOSE k \in 1 .. Len(mgrRoutes.routes) :
     RouteOffends(k) /\ \A m \in 1 .. (k - 1) : ~RouteOffends(m)

\* C13: for an allocated vpc attachment in state available whose routes were listed,
\* the first route in list order that is neither static nor IPv6 and that is outside
\* every block of the allocation, or inside a block of another region than the
\* target, decides: DELETE with the cause of that route; without such a route the
\* tag check decides.
C13_FirstOffendingRouteDecides ==
  (/\ planned # NotPlanned
   /\ attachment.Type = "vpc" /\ attachment.State = "available"
   /\ Allocated /\ mgrRoutes.ok) =>
     IF \E k \in 1 .. Len(mgrRoutes.routes) : RouteOffends(k)
     THEN /\ planned.kind = "return" /\ planned.action = "DELETE"
          /\ planned.calls = 1 /\ ~planned.tagCheck
          /\ LET d == mgrRoutes.routes[FirstOffending].CIDR
             IN IF RouteUnallocated(FirstOffending)
                THEN planned.cause =
                       <<"missing allocation for propagated route: %s", String(d)>>
                ELSE \E r \in RegionsHolding(Matched, d) :
                       planned.cause =
                         <<"route propagation from wrong region (subnet belongs to %s): %s",
                           r, String(d)>>
     ELSE planned.tagCheck /\ planned.action \in {"TAG", "NONE"} /\ planned.calls = 1

\* A full route list whose first offending route lies in a block of another region
\* than the target: that route decides.
C13_Witness ==
  /\ planned # NotPlanned
  /\ attachment.Type = "vpc" /\ attachment.State = "available" /\ Allocated /\ mgrRoutes.ok
  /\ Len(mgrRoutes.routes) = MaxRoutes
  /\ \E k \in 1 .. Len(mgrRoutes.routes) :
        /\ RouteWrongRegion(k)
        /\ \A m \in 1 .. (k - 1) : ~RouteOffends(m)
  /\ planned.action = "DELETE"
  /\ planned.cause[1] = "route propagation from wrong region (subnet belongs to %s): %s"

\* ---------------------------------------------------------------- C14
\* C14: when the tag check is reached with a matched allocation, Plan yields TAG with
\* "name tag does not match allocation" exactly when the attachment has a Name tag
\* whose value is not the allocation's name, and NONE with an empty reason otherwise.
C14_TagCheckWithAllocation ==
  (planned # NotPlanned /\ planned.tagCheck /\ Allocated) =>
     /\ planned.kind = "return"
     /\ IF \E key \in DOMAIN attachment.Tags :
              key = "Name" /\ attachment.Tags[key] # Matched.Name
        THEN planned.action = "TAG" /\ planned.cause = <<"name tag does not match allocation">>
        ELSE planned.action = "NONE" /\ planned.cause = <<"">>

\* An allocated attachment without a Name tag passes the tag check with NONE.
C14_Witness ==
  /\ planned # NotPlanned /\ planned.tagCheck /\ Allocated
  /\ attachment.State = "available"
  /\ "Name" \notin DOMAIN attachment.Tags
  /\ planned.action = "NONE"

\* ---------------------------------------------------------------- C15
\* C15: a vpc attachment that reaches the tag check without a matched allocation and
\* with a Name tag gets the decision NONE; Plan does not fail on the absent allocation.
C15_UnallocatedTaggedIsNoOp ==
  (/\ planned # NotPlanned /\ planned.tagCheck
   /\ attachment.Type = "vpc" /\ ~Allocated
   /\ "Name" \in DOMAIN attachment.Tags) =>
     planned.kind = "return" /\ planned.action = "NONE"


\* ---------------------------------------------------------------- C16
\* The EC2 API received one request, of kind op, for the attachment of the change.
OneRequest(op) ==
  /\ Len(requests) = 1
  /\ requests[1].op = op
  /\ requests[1].id = change.Attachment.ID

\* C16: Apply issues one mutation for APPROVE (accept), REJECT (reject) and DELETE
\* (delete), for the attachment of the decision; none for NONE, which succeeds; and
\* none for an action outside the five, which fails with "invalid action".
C16_ApplyOneMutationPerDecision ==
  (applied # NotRun) =>
     /\ change.Action = "APPROVE" => OneRequest("AcceptTransitGatewayVpcAttachment")
     /\ change.Action = "REJECT" => OneRequest("RejectTransitGatewayVpcAttachment")
     /\ change.Action = "DELETE" => OneRequest("DeleteTransitGatewayVpcAttachment")
     /\ change.Action = "NONE" =>
           requests = <<>> /\ applied.kind = "return" /\ applied.err = Nil
     /\ change.Action \notin {"APPROVE", "REJECT", "DELETE", "TAG", "NONE"} =>
           /\ requests = <<>> /\ applied.kind = "return"
           /\ applied.err = [msg |-> "invalid action: %s", action |-> change.Action]

\* A REJECT decision applied while the API refuses: one reject request went out.
C16_Witness ==
  /\ applied # NotRun /\ change.Action = "REJECT"
  /\ apiAnswer = "UnauthorizedOperation"
  /\ OneRequest("RejectTransitGatewayVpcAttachment")
  /\ applied.err # Nil

\* ---------------------------------------------------------------- C17
\* C17: applying a TAG decision issues one tag-set request for the attachment whose
\* tag list is exactly the one tag Name = the allocation's name.
C17_TagRequestHasOneTag ==
  (applied # NotRun /\ change.Action = "TAG" /\ ~IsNil(change.Allocation)) =>
     /\ OneRequest("CreateTags")
     /\ requests[1].Tags = <<[Key |-> "Name", Value |-> change.Allocation.Name]>>

\* ---------------------------------------------------------------- C18
\* The decision leads to one of the four mutations (a TAG needs its allocation).
Mutates ==
  \/ change.Action \in {"APPROVE", "REJECT", "DELETE"}
  \/ change.Action = "TAG" /\ ~IsNil(change.Allocation)

\* C18: with the dry-run flag set each of the four mutations still sends its request,
\* with DryRun = true; the answer DryRunOperation is reported as success and every
\* other error of the API is returned.
C18_DryRunIssuedAndTolerated ==
  (applied # NotRun /\ dryRun /\ Mutates) =>
     /\ Len(requests) = 1 /\ requests[1].DryRun = TRUE
     /\ applied.kind = "return"
     /\ apiAnswer = "DryRunOperation" => applied.err = Nil
     /\ apiAnswer \in {"UnauthorizedOperation", "connection reset"} =>
           applied.err # Nil /\ applied.err.msg = apiAnswer

\* A dry-run delete that the API answers with DryRunOperation succeeds.
C18_Witness ==
  /\ applied # NotRun /\ dryRun /\ change.Action = "DELETE"
  /\ apiAnswer = "DryRunOperation"
  /\ Len(requests) = 1 /\ requests[1].DryRun = TRUE
  /\ applied.err = Nil

\* ---------------------------------------------------------------- C19
\* C19: in every entry point a table that violates an invariant of Validate aborts
\* the run before the first call on the gateway: no attachment is listed, no decision
\* planned, no mutation issued.
C19_InvalidTableAbortsRun ==
  (runPc # "idle" /\ Violated(table) # {}) => (trace = <<>> /\ changes = <<>>)

\* What holds: the unattended handler makes no call and plans nothing on such a table.
HandlerValidatesFirst ==
  (entry = "handler" /\ Violated(table) # {}) =>
     /\ trace = <<>> /\ changes = <<>>
     /\ runPc = "done" => outcome = [kind |-> "fatal", msg |-> "validate config", at |-> "start"]

\* ---------------------------------------------------------------- C20
\* The attempts of Apply, in the order they were made.
ApplyEvents == SelectSeq(trace, LAMBDA e : e.op = "Apply")

\* C20: in CLI apply, once approved, Apply is attempted once for every planned change,
\* in plan order, which is the order of the listed attachments, whether or not
\* earlier ones failed; the command fails with "one or more changes failed" exactly
\* when an Apply failed.
C20_EveryChangeAppliedInOrder ==
  /\ (entry = "apply" /\ runPc = "apply") =>
        /\ Len(ApplyEvents) = pos - 1
        /\ Len(changes) = Len(live)
        /\ \A k \in 1 .. Len(ApplyEvents) :
              ApplyEvents[k].id = changes[k].Attachment.ID /\ changes[k].Attachment = live[k]
  /\ (entry = "apply" /\ outcome # NotRun /\ outcome.at = "apply") =>
        /\ Len(ApplyEvents) = Len(changes) /\ Len(changes) = Len(live)
        /\ \A k \in 1 .. Len(changes) :
              ApplyEvents[k].id = changes[k].Attachment.ID /\ changes[k].Attachment = live[k]
        /\ IF \E k \in 1 .. Len(ApplyEvents) : ApplyEvents[k].failed
           THEN outcome.kind = "fatal" /\ outcome.msg = "appl changes: one or more changes failed"
           ELSE outcome.kind = "return" /\ outcome.msg = ""

\* Two changes of which the first failed and the second was applied all the same.
C20_Witness ==
  /\ entry = "apply" /\ outcome # NotRun /\ outcome.at = "apply"
  /\ Len(changes) = 2 /\ Len(ApplyEvents) = 2
  /\ changes[1].Action # "NONE" /\ changes[2].Action # "NONE"
  /\ ApplyEvents[1].failed /\ ~ApplyEvents[2].failed
  /\ outcome.kind = "fatal"

\* ---------------------------------------------------------------- C26
\* C26: Subnet terminates for every supernet, prefix and reserved list: the call
\* reaches its return.
C26_SubnetTerminates == <>(pc = "done")

\* The reason C26 gives: every jump moves the candidate to a strictly higher address.
JumpsAscend == [][(pc = "loop" /\ pc' = "continue") => next'.ip > next.ip]_vars

\* ---------------------------------------------------------------- C21
\* C21: ApplyAll applies the decisions in input order and goes on after a failure:
\* when it has returned, every decision of the input was attempted, in order, and
\* its result is an error exactly when an attempt failed.
C21_ApplyAllContinues ==
  (entry = "ApplyAll" /\ runPc = "done") =>
     /\ Len(ApplyEvents) = Len(changes)
     /\ \A k \in 1 .. Len(ApplyEvents) : ApplyEvents[k].id = changes[k].Attachment.ID
     /\ (outcome.msg # "") <=> (\E k \in 1 .. Len(ApplyEvents) : ApplyEvents[k].failed)

\* What holds: the attempts are a prefix of the input, in order, and end with the
\* first failure.
ApplyAllStopsAtFirstError ==
  (entry = "ApplyAll") =>
     /\ Len(ApplyEvents) <= Len(changes)
     /\ \A k \in 1 .. Len(ApplyEvents) :
           /\ ApplyEvents[k].id = changes[k].Attachment.ID
           /\ ApplyEvents[k].failed => (k = Len(ApplyEvents) /\ runPc = "done")
     /\ (runPc = "done" /\ outcome.msg = "") => Len(ApplyEvents) = Len(changes)

\* ---------------------------------------------------------------- C22
\* The attachments whose routes could not be listed.
RouteFailures == SelectSeq(trace, LAMBDA e : e.op = "ListAttachmentRoutes" /\ e.failed)

\* C22: when listing the routes fails for an attachment during PlanAll, only that
\* attachment is skipped: once planning is over there is a decision for every other
\* attachment of the list.
C22_PlanAllSkipsOnlyFailed ==
  (/\ entry = "plan" /\ runPc = "done" /\ outcome.at = "plan"
   /\ outcome.kind # "panic") =>
     Len(changes) = Len(live) - Len(RouteFailures)

\* What holds: after a failed listing PlanAll returns no decision at all.
PlanAllAllOrNothing ==
  (entry = "plan" /\ runPc = "done" /\ outcome.at = "plan") =>
     IF outcome.kind = "return" THEN Len(changes) = Len(live) /\ RouteFailures = <<>>
     ELSE changes = <<>>

\* ---------------------------------------------------------------- C23
\* The attachments the handler has dealt with when its pass is over.
HandlerPassOver == entry = "handler" /\ runPc = "done" /\ outcome.at = "handle"

\* C23: in the unattended handler a failure to plan or apply one attachment does not
\* stop the pass: when the pass is over every attachment of the list was planned,
\* those with a decision other than NONE were applied, in list order, none whose
\* planning failed was applied, and the handler returned nil.
C23_HandlerPassContinues ==
  HandlerPassOver =>
     /\ outcome.kind = "return" /\ outcome.msg = ""
     /\ pos = Len(live) + 1
     /\ Len(changes) = Len(live) - Len(RouteFailures)
     /\ \A k \in 1 .. Len(ApplyEvents) :
           \E j \in 1 .. Len(changes) :
              changes[j].Attachment.ID = ApplyEvents[k].id /\ changes[j].Action # "NONE"
     /\ Len(ApplyEvents) =
          Cardinality({j \in 1 .. Len(changes) : changes[j].Action # "NONE"})

\* What holds: as long as no Plan panics, the pass deals with every attachment.
HandlerPassWithoutPanic ==
  (HandlerPassOver /\ outcome.kind # "panic") =>
     /\ outcome.kind = "return" /\ outcome.msg = ""
     /\ pos = Len(live) + 1
     /\ Len(changes) = Len(live) - Len(RouteFailures)
     /\ Len(ApplyEvents) =
          Cardinality({j \in 1 .. Len(changes) : changes[j].Action # "NONE"})

\* ---------------------------------------------------------------- C27
\* The attachments of the list that Plan was called on: all before pos, and the one
\* at pos when planning ended there.
PlanCalls ==
  IF pos > Len(live) THEN Len(live)
  ELSE IF runPc = "done" /\ outcome.at = "plan" THEN pos
  ELSE pos - 1

\* A vpc attachment in state available whose owner has an allocation in the table.
NeedsRoutes(a) ==
  /\ a.Type = "vpc" /\ a.State = "available"
  /\ \E t \in 1 .. Len(table.Teams) : \E j \in 1 .. Len(table.Teams[t].Accounts) :
        table.Teams[t].Accounts[j].Owner = a.Owner

RouteCalls == SelectSeq(trace, LAMBDA e : e.op = "ListAttachmentRoutes")

\* C27: planning makes no accept, reject, delete or set-tags call, and lists the
\* routes of an attachment once if it is a vpc attachment in state available with an
\* allocation, and not at all otherwise.
C27_PlanningIsReadOnly ==
  (entry = "plan" /\ runPc \in {"plan", "done"} /\ pos >= 1) =>
     /\ \A k \in 1 .. Len(trace) : trace[k].op \in {"ListAttachments", "ListAttachmentRoutes"}
     /\ LET called == SelectSeq(SubSeq(live, 1, PlanCalls), NeedsRoutes)
        IN /\ Len(RouteCalls) = Len(called)
           /\ \A k \in 1 .. Len(called) : RouteCalls[k].id = called[k].ID

\* Planning is over for a list with an attachment whose routes were listed and one
\* whose routes were not.
C27_Witness ==
  /\ entry = "plan" /\ runPc = "done" /\ outcome.at = "plan" /\ outcome.kind = "return"
  /\ Len(live) = 2 /\ Len(RouteCalls) = 1
  /\ \E k \in 1 .. 2 : live[k].State = "pendingAcceptance"

\* ---------------------------------------------------------------- C25
\* C25: A.Includes(B) holds exactly when the first and the last address of B lie in
\* the range of A, whatever the prefix lengths; and A.Includes(B) together with
\* B.Includes(A) holds only if A and B are the same block.
C25_IncludesByEndpoints ==
  /\ inclAB # NotRun =>
       (inclAB.answer <=> (First(blockB) \in Range(blockA) /\ Last(blockB) \in Range(blockA)))
  /\ inclBA # NotRun =>
       (inclBA.answer <=> (First(blockA) \in Range(blockB) /\ Last(blockA) \in Range(blockB)))
  /\ (inclAB = [answer |-> TRUE] /\ inclBA = [answer |-> TRUE]) => blockA = blockB

\* A shorter block was asked whether it includes a longer one inside it, and the
\* longer one whether it includes the shorter: yes and no.
C25_Witness ==
  /\ inclAB = [answer |-> TRUE] /\ inclBA = [answer |-> FALSE]
  /\ blockA.len < blockB.len

\* The function agrees with the step-by-step run of Subnet: a run that returns has
\* returned the function's pair.
SubnetAgrees ==
  pc = "done" => Subnet(c, prefix, reserved) = Returns(ret, err)

\* ---------------------------------------------------------------- C24
\* C24: for a fixed supernet and prefix the outcome of Subnet is the same for every
\* ordering of the reserved blocks, and a reservation appended to the list that does
\* not overlap the block returned before leaves the returned block unchanged.
C24_SubnetStable ==
  (out # NotRun /\ outOther # NotRun) =>
     /\ other \in Rearranged(known) => outOther = out
     /\ (/\ other \in Extended(known)
         /\ out.kind = "return" /\ out.err = Nil
         /\ ~SharesAddress(other[Len(other)], out.cidr)) => outOther = out

\* The second list has the two different blocks of the first exchanged, both of them
\* in the way of the first candidate, and both calls returned the same later block.
C24_Witness ==
  /\ out # NotRun /\ outOther # NotRun
  /\ out.kind = "return" /\ out.err = Nil /\ outOther = out
  /\ out.cidr.ip # sSuper.ip
  /\ Len(known) = 2 /\ known[1] # known[2] /\ other = <<known[2], known[1]>>
  /\ ReservedHits([ip |-> sSuper.ip, len |-> sPrefix], known) = {1, 2}

\* ---------------------------------------------------------------- C28
\* The pages before the first failing one, all of them if none fails.
GoodPages ==
  IF \E k \in 1 .. Len(pages) : pages[k].fails
  THEN (CHOOSE k \in 1 .. Len(pages) :
          pages[k].fails /\ \A m \in 1 .. (k - 1) : ~pages[m].fails) - 1
  ELSE Len(pages)

\* The ec2 attachments of the first n pages, in page order.
RawUpTo(n) == Concat([k \in 1 .. n |-> pages[k].TransitGatewayAttachments])

\* The value of the last tag of the list with the key.
LastTag(tags, key) ==
  tags[CHOOSE k \in 1 .. Len(tags) :
         tags[k].Key = key /\ \A m \in (k + 1) .. Len(tags) : tags[m].Key # key].Value

\* C28: ListAttachments requests pages until a response carries no next token, each
\* request with the token of the response before it; it returns the attachments of
\* all pages in page order, each with its id, owner, type, state, creation time and
\* tags; if a page request fails it returns the error and no attachments.
C28_ListFollowsPages ==
  /\ \A k \in 1 .. Len(tokens) : tokens[k] = IF k = 1 THEN 0 ELSE TokenAfter(k - 1)
  /\ listPc = "done" =>
       IF GoodPages < Len(pages)
       THEN /\ listRet.err # Nil /\ listRet.attachments = <<>>
            /\ Len(tokens) = GoodPages + 1
       ELSE /\ listRet.err = Nil
            /\ Len(tokens) = Len(pages)
            /\ Len(listRet.attachments) = Len(RawUpTo(Len(pages)))
            /\ \A j \in 1 .. Len(listRet.attachments) :
                  LET got == listRet.attachments[j]
                      raw == RawUpTo(Len(pages))[j]
                  IN /\ got.ID = raw.TransitGatewayAttachmentId
                     /\ got.Owner = raw.ResourceOwnerId
                     /\ got.Type = raw.ResourceType
                     /\ got.State = raw.State
                     /\ got.Created = raw.CreationTime
                     /\ DOMAIN got.Tags = {raw.Tags[t].Key : t \in 1 .. Len(raw.Tags)}
                     /\ \A key \in DOMAIN got.Tags : got.Tags[key] = LastTag(raw.Tags, key)

\* Three pages were requested, the second and third with the token of the response
\* before, and the attachments of more than one page were returned.
C28_Witness ==
  /\ listPc = "done" /\ listRet.err = Nil
  /\ tokens = <<0, 2, 3>>
  /\ Len(pages[1].TransitGatewayAttachments) > 0
  /\ Len(pages[3].TransitGatewayAttachments) > 0
  /\ Len(listRet.attachments) >
       Len(pages[1].TransitGatewayAttachments) + Len(pages[3].TransitGatewayAttachments)

\* ---------------------------------------------------------------- C30
\* net.ParseCIDR of a printed line.
ParseCIDR(str) == [ip |-> str[2], len |-> str[3]]
PrintedBlocks == [k \in 1 .. Len(printed) |-> ParseCIDR(printed[k])]

\* The blocks allocated in the table.
AllocatedBlocks(cfg) ==
  UNION {{Allocations(cfg)[k].CIDRs[r][j] : j \in 1 .. Len(Allocations(cfg)[k].CIDRs[r])} :
           k \in 1 .. Len(Allocations(cfg)), r \in AwsRegions \cap UNION {DOMAIN Allocations(cfg)[m].CIDRs : m \in 1 .. Len(Allocations(cfg))}}

C30_Printed ==
  /\ \A i, j \in 1 .. Len(printed) : i < j => ~SharesAddress(PrintedBlocks[i], PrintedBlocks[j])
  /\ \A k \in 1 .. Len(printed) :
        /\ PrintedBlocks[k].len = prefixes[k]
        /\ String(supernet) = super
        /\ Range(PrintedBlocks[k]) \subseteq Range(supernet)
        /\ \A b \in AllocatedBlocks(config) : ~SharesAddress(PrintedBlocks[k], b)
  /\ nextPc \in {"loop", "hang", "done"} =>
        \/ nextPc = "done" /\ nextErr = ErrInvalidSupernet(super) /\ printed = <<>>
        \/ \E o \in OrdersOf(RegionsIn(config)) :
             \/ cidrSubnets = ListSubnets(config, o) \o PrintedBlocks
             \/ /\ nextPc = "done" /\ nextErr = Err("write failed")
                /\ Front(cidrSubnets) = ListSubnets(config, o) \o PrintedBlocks
  /\ nextPc = "loop" => Len(printed) = idx - 1
  /\ (nextPc = "done" /\ nextErr = Nil) => Len(printed) = Len(prefixes)
  /\ (nextPc = "hang" \/ (nextPc = "done" /\ nextErr \notin {Nil, ErrInvalidSupernet(super)})) =>
        Len(printed) = idx - 1 /\ idx <= Len(prefixes)

\* C30: the blocks next-cidr prints for a sequence of prefixes are pairwise
\* non-overlapping, lie in the chosen supernet and overlap no block allocated in the
\* table; each block found is appended to the reserved list before the next prefix,
\* nothing is printed after the first prefix that cannot be satisfied, and the table
\* is not changed.
C30_NextCidrBlocks == [](C30_Printed) /\ [][config' = config]_vars

\* Two blocks were printed and the third prefix could not be satisfied.
C30_Witness ==
  /\ nextPc = "done" /\ nextErr = Err("no space left in supernet")
  /\ Len(printed) = 2 /\ Len(prefixes) = 3

\* ---------------------------------------------------------------- C29
\* The regions of an allocation with a block that prints like the route or includes it.
RegionsOfRoute(route, allocation) ==
  {r \in DOMAIN allocation.CIDRs :
     \E m \in 1 .. Len(allocation.CIDRs[r]) :
        \/ String(allocation.CIDRs[r][m]) = String(route)
        \/ Range(route) \subseteq Range(allocation.CIDRs[r][m])}

\* C29: on a table accepted by Validate, Plan yields the same action and reason for
\* the same attachment, region, routes and time, whatever the iteration order of the
\* region map and the order of the allocations: one allocation at most has the
\* owner, and a route destination lies in blocks of one region at most.
C29_PlanDeterministic ==
  /\ vres = Nil =>
       /\ \A i, j \in 1 .. Len(Allocations(config)) :
             Allocations(config)[i].Owner = Allocations(config)[j].Owner => i = j
       /\ \A k \in 1 .. Len(Allocations(config)) : \A route \in RouteChoices :
             ~IsV6(route.CIDR) =>
                Cardinality(RegionsOfRoute(route.CIDR, Allocations(config)[k])) <= 1
  /\ planned # NotPlanned =>
       \A allocs \in Rearranged(Allocations(config)) :
          \A o \in OrdersOf(DOMAIN getAllocationByOwner(attachment.Owner, allocs).CIDRs) :
             LET p == Plan(attachment, allocs, currentRegion, mgrRoutes, now, o)
             IN p.kind = planned.kind /\ p.action = planned.action /\ p.cause = planned.cause

\* An available attachment of the account with blocks in two regions was planned
\* from the allocations in another order than the table's, and a route in the block
\* of the other region decided.
C29_Witness ==
  /\ vres = Nil /\ planned # NotPlanned
  /\ planned.kind = "return" /\ planned.action = "DELETE"
  /\ Len(allocations) = 2 /\ allocations # Allocations(config)
  /\ Cardinality(DOMAIN planned.allocation.CIDRs) = 2
  /\ currentRegion = "eu-west-1"
  /\ mgrRoutes.ok /\ Len(mgrRoutes.routes) > 0
  /\ \A k \in 1 .. Len(mgrRoutes.routes) :
        RegionsOfRoute(mgrRoutes.routes[k].CIDR, planned.allocation) = {"eu-north-1"}

====
